---- MODULE Spec2Model ----
(***************************************************************************)
(* Model of the eth-blockchain-parser ingestion pipeline:                  *)
(*   - the run coordinator        (cmd/infura-parser/main.go)              *)
(*   - the range fetcher          (pkg/parser/parser.go, ParseBlockRange)  *)
(*   - the retrying RPC client    (pkg/client/eth_client.go)               *)
(*   - the whale filter           (pkg/filtering/filtering.go)             *)
(*                                                                         *)
(* Specifications:                                                         *)
(*   Spec        coordinator runs, each with a concurrent ParseBlockRange  *)
(*   SpecRetry   callers of executeWithRetry sharing one EthClient         *)
(*   SpecFilter  ParseWhaleTransactions applied to enumerated inputs       *)
(*   SpecClamp   the start/end block computation applied to enumerated     *)
(*               watermark and chain head values                           *)
(*   SpecConvert gweiToETH applied to enumerated wei amounts               *)
(*   SpecBlock   ParseSingleBlock applied to enumerated blocks, receipts   *)
(*               and configurations                                        *)
(*   SpecStore   sequences of BatchInsert calls on the transactions table  *)
(*   SpecBackoff calculateRateLimitBackoff applied to enumerated attempts  *)
(*   SpecDecode  GetBlockByNumber with its decode fallback, one block      *)
(*   SpecRange   one ParseBlockRange call for every worker count and range *)
(*               size, with fair scheduling of its goroutines              *)
(*   SpecCancel  one ParseBlockRange call under a context that is cancelled *)
(*   SpecProc    coordinator processes started concurrently: the lock file *)
(*               and the startup path of main with its exit status         *)
(*   SpecCsv     TransformTxsToCsv applied to enumerated records and label *)
(*               maps                                                      *)
(*   SpecWatermark  ReadLastBlock and WriteLastBlock applied to enumerated *)
(*               file contents and block numbers                           *)
(***************************************************************************)
EXTENDS Integers, Sequences, FiniteSets, TLC

VARIABLES
    \* ---- durable state (survives a process exit) ----
    lastBlockFile,   \* content of config.LastBlockPath: a sequence of decimal digits, <<>> when absent
    csvFile,         \* content of config.CsvPath: the sequence of appended lines
    txStore,         \* the transactions table: the set of stored tx hashes (tx_hash is UNIQUE)
    head,            \* the chain head the RPC endpoint reports
    \* ---- one coordinator process (main) ----
    pc,              \* position of main
    latest,          \* main: latest
    startBlock,      \* main: startBlock
    endBlock,        \* main: endBlock
    blocks,          \* main: blocks, the list returned by ParseBlockRange
    tx_filtered,     \* main: tx_filtered
    runs,            \* number of coordinator processes started so far
    \* ---- ParseBlockRange ----
    blockChan,       \* buffered channel of block numbers
    blockChanClosed, \* close(blockChan) has run
    resultChan,      \* buffered channel of ParseResult
    feederNext,      \* the feeder goroutine's blockNum
    feederDone,      \* the feeder goroutine has returned
    wpc,             \* per worker: "recv", "send" or "done"
    wres,            \* per worker: the ParseResult it is about to send
    allBlocks,       \* the collector's accumulation slice
    ErrorsEncountered, \* p.stats.ErrorsEncountered
    BlocksParsed,    \* p.stats.BlocksParsed
    \* ---- history of the current run and of the run sequence ----
    wmAtStart,       \* the watermark ReadLastBlock returned when this run started
    parsedOK,        \* block numbers whose ParseSingleBlock succeeded in this run
    parsedFail,      \* block numbers whose ParseSingleBlock failed in this run
    statsAtReturn,   \* ErrorsEncountered when ParseBlockRange returned
    clamped,         \* the clamp branch was taken in this run
    persisted,       \* this run's BatchInsert has returned nil
    baseWm,          \* watermark at the start of the current clamp-free sequence of runs, -1 when none
    handed,          \* block numbers handed to the whale filter in that sequence
    \* ---- executeWithRetry (SpecRetry) ----
    isInfura,        \* c.isInfura
    tickerStopped,   \* c.rateLimiter.Stop() has run
    tick,            \* a tick is waiting in c.rateLimiter.C (capacity 1)
    rpc,             \* per caller: position in executeWithRetry
    attempt,         \* per caller: attempt
    calls,           \* per caller: number of invocations of fn
    succ,            \* per caller: number of invocations of fn that returned nil error
    rlFails,         \* per caller: rate-limit failures of fn
    otherFails,      \* per caller: other failures of fn
    reconnFails,     \* per caller: failed Reconnect calls
    \* ---- pure-function harnesses (SpecFilter, SpecClamp) ----
    fin,             \* SpecFilter: the input [blocks, minETH, ids]
    fout,            \* SpecFilter: [done, res], res the output of ParseWhaleTransactions
    cin,             \* SpecClamp: the input [wm, latest]
    cout,            \* SpecClamp: [done, res], res the output of FetchRange
    gin,             \* SpecConvert: the input [units, tail, wei], wei = units * 10^13 + tail
    gout,            \* SpecConvert: [done, res], res the output of gweiToETH
    bin,             \* SpecBlock: the input [cfg, blockFails, txs, batchFails, receipts]
    bout,            \* SpecBlock: [done, res], res the output of ParseSingleBlock
    vin,             \* SpecCsv: the input [txs, whalesAddrs]
    vout,            \* SpecCsv: [done, res], res the output of TransformTxsToCsv
    win,             \* SpecWatermark: the input [exists, file, block]
    wout,            \* SpecWatermark: [op, file, fatal, value] after the read or the write-then-read
    \* ---- the transactions table (SpecStore) ----
    rows,            \* the rows of the table: [id, rec, created_at, updated_at]
    nextRowId,       \* the next AUTOINCREMENT id
    now,             \* the clock time.Now() reads
    sops,            \* number of BatchInsert calls made
    sprev,           \* the rows before the last BatchInsert call
    sbatch,          \* the batch of the last BatchInsert call
    sres,            \* its outcome: "none", "ok", "failed", or "repeated" for an "ok" with the batch of the "ok" call before it,
    \* ---- coordinator processes and the lock file (SpecProc) ----
    ppc,             \* per process: position in main, "off" before it starts, "exited" after
    pstatus,         \* per process: exit status, -1 while it runs
    pcause,          \* per process: what ended it
    ptouched,        \* per process: which of "store", "watermark", "csv" it has opened
    pfetched,        \* per process: it has asked the endpoint for a block or the head
    lockHolder,      \* the process holding the flock on /tmp/eth_parser.lock, 0 when none
    pstarts,         \* processes started so far
    \* ---- the context handed to ParseBlockRange (SpecCancel) ----
    cancelled,       \* ctx.Done() is closed
    feederAtCancel,  \* history: the feeder's next block number when the context was cancelled
    wtakenAfter,     \* history, per worker: block numbers received after the cancellation
    \* ---- parser configuration ----
    numWorkers,      \* p.config.Workers
    \* ---- history of the shared client (SpecRetry) ----
    reqs,            \* RPC requests started by the callers
    taken,           \* ticks received from c.rateLimiter.C
    lastErr,         \* per caller: kind of the last error fn returned, "none" before any,
    \* ---- harness of the client's pure functions (SpecBackoff, SpecDecode) ----
    hin,             \* the input
    hout             \* [done, res]: the result once the function was applied

durableVars == <<lastBlockFile, csvFile, txStore, head>>
mainVars    == <<pc, latest, startBlock, endBlock, blocks, tx_filtered, runs>>
rangeVars   == <<blockChan, blockChanClosed, resultChan, feederNext, feederDone,
                 wpc, wres, allBlocks, ErrorsEncountered, BlocksParsed>>
histVars    == <<wmAtStart, parsedOK, parsedFail, statsAtReturn, clamped, persisted,
                 baseWm, handed>>
retryVars   == <<isInfura, tickerStopped, tick, rpc, attempt, calls, succ,
                 rlFails, otherFails, reconnFails>>
pureVars    == <<fin, fout, cin, cout, gin, gout, bin, bout, vin, vout, win, wout, hin, hout>>
storeVars   == <<rows, nextRowId, now, sops, sprev, sbatch, sres>>
procVars    == <<ppc, pstatus, pcause, ptouched, pfetched, lockHolder, pstarts>>
cancelVars  == <<cancelled, feederAtCancel, wtakenAfter>>
gateVars    == <<reqs, taken, lastErr>>
vars        == <<durableVars, mainVars, rangeVars, histVars, retryVars, pureVars, storeVars,
                 procVars, cancelVars, numWorkers, gateVars>>

(***************************************************************************)
(* Bounds and program constants                                            *)
(***************************************************************************)
Workers       == 2      \* config.Workers, scaled down
MaxBlockDelta == 2      \* config.MaxBlockDelta, scaled down
MinHead       == 9      \* lowest chain head the endpoint reports
MaxHead       == 11     \* highest chain head the endpoint reports
MaxRuns       == 2      \* coordinator processes started in one behaviour
Callers       == 2      \* goroutines sharing the EthClient
MaxWm         == 12     \* SpecClamp: largest watermark enumerated
MaxLatest     == 12     \* SpecClamp: largest chain head enumerated
MaxTxs        == 3      \* SpecBlock: largest number of transactions in a block
MaxInserts    == 3      \* SpecStore: BatchInsert calls in one behaviour
MaxBatch      == 2      \* SpecStore: largest batch
Procs         == 2      \* SpecProc: coordinator processes that may run at once
MaxBackoffAttempt == 64 \* SpecBackoff: largest attempt number enumerated
MaxEntries    == 3 \* SpecDecode: largest number of entries of the wire block
MaxRange      == 5      \* SpecRange: largest number of blocks in one ParseBlockRange call
MaxProcStarts == 3      \* SpecProc: processes started in one behaviour
MaxFileLen    == 3      \* SpecWatermark: longest prior content of the watermark file
Retries       == 3      \* config.Retries default
MinETHValue   == 1      \* config.MinETHValue default
Uint64Mod     == 1073741824  \* modulus of unsigned arithmetic (2^64 in the program, 2^30 here)

NoAddr == "nil"

(***************************************************************************)
(* Unsigned arithmetic                                                     *)
(***************************************************************************)
USub(a, b) == (a - b) % Uint64Mod
UAdd(a, b) == (a + b) % Uint64Mod

(***************************************************************************)
(* Decimal digits: fmt.Sprintf("%d"), big.Int.String, strconv.Atoi         *)
(***************************************************************************)
RECURSIVE NatToDigits(_)
NatToDigits(n) == IF n < 10 THEN <<n>> ELSE Append(NatToDigits(n \div 10), n % 10)

RECURSIVE DigitsToNat(_)
DigitsToNat(ds) ==
    IF Len(ds) = 0 THEN 0
    ELSE 10 * DigitsToNat(SubSeq(ds, 1, Len(ds) - 1)) + ds[Len(ds)]

Zeros(n) == [i \in 1..n |-> 0]

(***************************************************************************)
(* Watermark store (pkg/filtering/filtering.go)                            *)
(***************************************************************************)
\* bytes of the watermark file other than decimal digits
NL      == -2    \* "\n"
Junk    == -3    \* a byte that is neither a digit nor a newline
LongRun == -4    \* a run of newline-free bytes twice as long as the scanner's buffer

\* file.WriteString(content) at offset 0 of a file opened without O_TRUNC:
\* the bytes of the old content beyond the written ones stay
RECURSIVE WriteAtStart(_, _)
WriteAtStart(file, content) ==
    IF Len(content) = 0 THEN file
    ELSE IF Len(file) = 0 THEN content
    ELSE IF Head(file) = LongRun THEN content \o file
    ELSE <<Head(content)>> \o WriteAtStart(Tail(file), Tail(content))

\* WriteLastBlock opens the file O_WRONLY|O_CREATE (no O_TRUNC) and writes the
\* decimal digits of block
WriteLastBlock(file, block) == WriteAtStart(file, NatToDigits(block))

\* bufio.Scanner with ScanLines: the lines of the file, no token for the
\* empty remainder after a final newline
FirstNL(file) ==
    IF \E i \in 1..Len(file) : file[i] = NL
    THEN CHOOSE i \in 1..Len(file) : file[i] = NL /\ \A j \in 1..(i - 1) : file[j] # NL
    ELSE 0

RECURSIVE ScanLines(_)
ScanLines(file) ==
    IF Len(file) = 0 THEN <<>>
    ELSE IF FirstNL(file) = 0 THEN <<file>>
    ELSE <<SubSeq(file, 1, FirstNL(file) - 1)>> \o ScanLines(SubSeq(file, FirstNL(file) + 1, Len(file)))

\* strconv.Atoi(line) returns no error
AtoiOk(line) == Len(line) > 0 /\ \A i \in 1..Len(line) : line[i] \in 0..9

\* scanner.Err() != nil: a line does not fit the scanner's buffer (log.Fatalf)
ScanFails(file) == \E i \in 1..Len(file) : file[i] = LongRun

\* ReadLastBlock: 0 when no line converts, numbers[0] otherwise
ReadLastBlock(file) ==
    LET numbers == SelectSeq(ScanLines(file), AtoiOk)
    IN  IF Len(numbers) = 0 THEN 0 ELSE DigitsToNat(numbers[1])

\* ReadLastBlock on a path: os.Open fails for a missing file, return 0
ReadLastBlockPath(exists, file) ==
    IF ~exists THEN [fatal |-> FALSE, value |-> 0]
    ELSE IF ScanFails(file) THEN [fatal |-> TRUE, value |-> 0]
    ELSE [fatal |-> FALSE, value |-> ReadLastBlock(file)]

(***************************************************************************)
(* Fetch window (cmd/infura-parser/main.go)                                *)
(***************************************************************************)
ClampAppliesOffByOne(start, end) == USub(end, start) >= MaxBlockDelta + 2

\* if endBlock-startBlock > config.MaxBlockDelta
ClampApplies(start, end) == USub(end, start) > MaxBlockDelta

\* startBlock, endBlock as main computes them from the watermark and latest
FetchRange(wm, lat) ==
    LET start0 == UAdd(wm, 1)
        end0   == lat
    IN  IF ClampApplies(start0, end0)
        THEN [start |-> USub(lat, MaxBlockDelta), end |-> end0, clamp |-> TRUE]
        ELSE [start |-> start0, end |-> end0, clamp |-> FALSE]

(***************************************************************************)
(* Value conversion and whale filter (pkg/filtering/filtering.go)          *)
(***************************************************************************)
\* wei amounts are sequences of decimal digits, as big.Int.String() prints them
ETH(n)      == NatToDigits(n) \o Zeros(18)
HalfETH     == <<5>> \o Zeros(17)
JustBelow   == <<9, 9, 9, 9, 9, 4>> \o Zeros(12)     \* 0.999994 ETH
RoundsUp    == <<9, 9, 9, 9, 9, 5>> \o Zeros(12)     \* 0.999995 ETH
NearOneETH  == <<9, 9, 9, 9, 9, 6>> \o Zeros(12)     \* 0.999996 ETH
ZeroWei     == <<0>>

Round5Truncates(wei) ==
    IF Len(wei) > 13 THEN DigitsToNat(SubSeq(wei, 1, Len(wei) - 13)) ELSE 0

\* decimal.NewFromString(str).Shift(-18).Round(5), in units of 10^-5 ETH:
\* the digits above the 13 lowest, plus one when the 13th lowest digit is >= 5
Round5(wei) ==
    LET n  == Len(wei)
        hi == IF n > 13 THEN DigitsToNat(SubSeq(wei, 1, n - 13)) ELSE 0
        rd == IF n >= 13 THEN wei[n - 12] ELSE 0
    IN  IF rd >= 5 THEN hi + 1 ELSE hi

RECURSIVE StripTrailingZeros(_)
StripTrailingZeros(ds) ==
    IF Len(ds) > 0 /\ ds[Len(ds)] = 0
    THEN StripTrailingZeros(SubSeq(ds, 1, Len(ds) - 1))
    ELSE ds

PadLeft(ds, n) == Zeros(n - Len(ds)) \o ds

\* the character "." in a string of digits
Dot == -1

\* decimal.String(): integer digits, then "." and the fraction without trailing zeros
FormatDecimal5(units) ==
    LET ip   == NatToDigits(units \div 100000)
        frac == StripTrailingZeros(PadLeft(NatToDigits(units % 100000), 5))
    IN  IF Len(frac) = 0 THEN ip ELSE ip \o <<Dot>> \o frac

gweiToETH(wei) == FormatDecimal5(Round5(wei))

\* position of the "." in a formatted decimal, 0 when there is none
DotPos(str) ==
    IF \E i \in 1..Len(str) : str[i] = Dot
    THEN CHOOSE i \in 1..Len(str) : str[i] = Dot
    ELSE 0

\* strconv.ParseFloat of a decimal with at most 5 fractional digits, in units of 10^-5
ParseFloat5(str) ==
    LET d    == DotPos(str)
        ip   == IF d = 0 THEN str ELSE SubSeq(str, 1, d - 1)
        frac == IF d = 0 THEN <<>> ELSE SubSeq(str, d + 1, Len(str))
    IN  DigitsToNat(ip) * 100000 + DigitsToNat(frac \o Zeros(5 - Len(frac)))

\* strings.ToLower on the addresses of the model: Hex() prints mixed case
ToLower(a) ==
    CASE a = "0xAA" -> "0xaa"
      [] a = "0xBB" -> "0xbb"
      [] a = "0xC1" -> "0xc1"
      [] OTHER -> a

\* whalesAddrsID: lower-case address -> id of the whale_addresses row, as a string
WhalesAddrsID == [a \in {"0xaa", "0xbb"} |-> IF a = "0xaa" THEN "1" ELSE "2"]

\* strconv.Atoi on the id strings; -1 stands for the error return
Atoi(s) == CASE s = "1" -> 1 [] s = "2" -> 2 [] s = "0" -> 0 [] OTHER -> -1

\* Go map lookup: value and presence, "" for a missing key
MapGet(m, k) == IF k \in DOMAIN m THEN m[k] ELSE ""
MapHas(m, k) == k \in DOMAIN m

TxDestNoInt(is_from, to_present, is_to) ==
    IF to_present /\ is_to THEN "TO"
    ELSE IF is_from THEN "FROM" ELSE ""

\* tx_dest after lines "if is_from" and "if txn.To != nil" of ParseWhaleTransactions
TxDest(is_from, to_present, is_to) ==
    LET d1 == IF is_from THEN "FROM" ELSE ""
    IN  IF to_present /\ is_to
        THEN (IF is_from /\ is_to THEN "INT" ELSE "TO")
        ELSE d1

\* database.MapParsedTxToDatabaseTx(txn, tx_value, tx_dest, whale_id)
MapParsedTxToDatabaseTx(txn, tx_value, tx_dest, whale_id) ==
    LET id == Atoi(whale_id)
    IN  [TxHash         |-> txn.Hash,
         BlockNumber    |-> txn.BlockNumber,
         FromAddress    |-> txn.From,
         ToAddress      |-> txn.To,
         Value          |-> tx_value,
         TransferType   |-> tx_dest,
         \* an Atoi error returns before SetDefaults: the id stays 0
         WhaleAddressID |-> IF id = -1 THEN 0 ELSE IF id = 0 THEN 1 ELSE id]

BelowMinOrEqual(sum_tx, minETH) == sum_tx <= minETH * 100000

\* "sum_tx < float64(minETH)", sum_tx in units of 10^-5
BelowMin(sum_tx, minETH) == sum_tx < minETH * 100000

\* the body of the inner loop of ParseWhaleTransactions: the records one
\* transaction appends to res
FilterTx(txn, whalesAddrsID, minETH) ==
    LET is_from   == MapHas(whalesAddrsID, ToLower(txn.From))
        from_id   == MapGet(whalesAddrsID, ToLower(txn.From))
        tx_value  == gweiToETH(txn.Value)
        sum_tx    == ParseFloat5(tx_value)
        to_present == txn.To # NoAddr
        is_to     == to_present /\ MapHas(whalesAddrsID, ToLower(txn.To))
        whale_id  == IF is_to THEN MapGet(whalesAddrsID, ToLower(txn.To)) ELSE from_id
        tx_dest   == TxDest(is_from, to_present, is_to)
    IN  IF BelowMin(sum_tx, minETH) THEN <<>>
        ELSE IF tx_dest # "" THEN <<MapParsedTxToDatabaseTx(txn, tx_value, tx_dest, whale_id)>>
        ELSE <<>>

RECURSIVE FilterTxsNewestFirst(_, _, _)
FilterTxsNewestFirst(txs, whalesAddrsID, minETH) ==
    IF Len(txs) = 0 THEN <<>>
    ELSE FilterTxsNewestFirst(Tail(txs), whalesAddrsID, minETH)
         \o FilterTx(Head(txs), whalesAddrsID, minETH)

RECURSIVE FilterTxs(_, _, _)
FilterTxs(txs, whalesAddrsID, minETH) ==
    IF Len(txs) = 0 THEN <<>>
    ELSE FilterTx(Head(txs), whalesAddrsID, minETH) \o FilterTxs(Tail(txs), whalesAddrsID, minETH)

RECURSIVE ParseWhaleTransactions(_, _, _)
ParseWhaleTransactions(blks, whalesAddrsID, minETH) ==
    IF Len(blks) = 0 THEN <<>>
    ELSE FilterTxs(Head(blks).Transactions, whalesAddrsID, minETH)
         \o ParseWhaleTransactions(Tail(blks), whalesAddrsID, minETH)

(***************************************************************************)
(* The chain served by the RPC endpoint                                    *)
(***************************************************************************)
\* Block n as ParseSingleBlock normalizes it. Odd blocks hold one transfer out
\* of a watched address, even blocks one unwatched transfer and one transfer
\* into a watched address: every block holds exactly one whale match.
ChainTransactions(n) ==
    IF n % 2 = 1
    THEN << [Hash |-> 10 * n + 1, BlockNumber |-> n, From |-> "0xAA", To |-> "0xC1", Value |-> ETH(2)] >>
    ELSE << [Hash |-> 10 * n + 1, BlockNumber |-> n, From |-> "0xC1", To |-> "0xc2", Value |-> HalfETH],
            [Hash |-> 10 * n + 2, BlockNumber |-> n, From |-> "0xC1", To |-> "0xBB", Value |-> ETH(5)] >>

ChainBlock(n) == [Number |-> n, Transactions |-> ChainTransactions(n)]

\* the ParsedBlock list for a list of block numbers
RECURSIVE ChainBlocks(_)
ChainBlocks(ns) == IF Len(ns) = 0 THEN <<>> ELSE <<ChainBlock(Head(ns))>> \o ChainBlocks(Tail(ns))

SeqRange(q) == {q[i] : i \in 1..Len(q)}
MaxOf(S) == CHOOSE m \in S : \A x \in S : x <= m

\* config.WhalesAddr: lower-case address -> label
WhalesAddr == [a \in {"0xaa", "0xbb"} |-> IF a = "0xaa" THEN "Binance 7" ELSE "Kraken 4"]

\* the characters of the CSV text: a quote, a comma, a newline, or a piece of
\* text printed by a %s or %d verb
Quote   == [kind |-> "quote", v |-> 0]
Comma   == [kind |-> "comma", v |-> 0]
Newline == [kind |-> "newline", v |-> 0]
Text(v) == [kind |-> "text", v |-> v]

\* "\"...\"" around the printed pieces
Quoted(pieces) == <<Quote>> \o [i \in 1..Len(pieces) |-> Text(pieces[i])] \o <<Quote>>

\* fmt.Sprintf("\"https://etherscan.io/tx/%s\",\"%s ETH\",\"FROM\",\"%s\",\"%s\",\"%s\",\"%d\"\n", ...)
CsvLine(tx, dir, addr, name) ==
    Quoted(<<"https://etherscan.io/tx/", tx.TxHash>>) \o <<Comma>>
    \o Quoted(<<tx.Value, " ETH">>) \o <<Comma>>
    \o Quoted(<<dir>>) \o <<Comma>>
    \o Quoted(<<addr>>) \o <<Comma>>
    \o Quoted(<<name>>) \o <<Comma>>
    \o Quoted(<<"now">>) \o <<Comma>>
    \o Quoted(<<tx.BlockNumber>>) \o <<Newline>>

CsvLinesOfTransferType(tx, whalesAddrs) ==
    IF MapHas(whalesAddrs, ToLower(tx.FromAddress))
    THEN CsvLine(tx, tx.TransferType, tx.FromAddress, MapGet(whalesAddrs, ToLower(tx.FromAddress)))
    ELSE IF tx.ToAddress # NoAddr /\ MapHas(whalesAddrs, ToLower(tx.ToAddress))
    THEN CsvLine(tx, tx.TransferType, tx.ToAddress, MapGet(whalesAddrs, ToLower(tx.ToAddress)))
    ELSE <<>>

\* the body of the loop of TransformTxsToCsv: the text one record adds to res
CsvLinesOf(tx, whalesAddrs) ==
    (IF MapHas(whalesAddrs, ToLower(tx.FromAddress))
     THEN CsvLine(tx, "FROM", tx.FromAddress, MapGet(whalesAddrs, ToLower(tx.FromAddress)))
     ELSE <<>>)
    \o
    (IF tx.ToAddress # NoAddr /\ MapHas(whalesAddrs, ToLower(tx.ToAddress))
     THEN CsvLine(tx, "TO", tx.ToAddress, MapGet(whalesAddrs, ToLower(tx.ToAddress)))
     ELSE <<>>)

RECURSIVE TransformTxsToCsv(_, _)
TransformTxsToCsv(txs, whalesAddrs) ==
    IF Len(txs) = 0 THEN <<>>
    ELSE CsvLinesOf(Head(txs), whalesAddrs) \o TransformTxsToCsv(Tail(txs), whalesAddrs)

(***************************************************************************)
(* Coordinator: one process per run (cmd/infura-parser/main.go)            *)
(***************************************************************************)
WorkerIds == 1..Workers
ExitedPcs == {"idle", "done", "fatal_rpc", "fatal_persist", "panic", "crashed"}
RunningPcs == {"get_latest", "parsing", "returned", "filter", "csv", "db"}

\* the watermark as the next reader sees it
Watermark == ReadLastBlock(lastBlockFile)

\* The process is gone: its memory, goroutines and channels with it.  What
\* stays is the durable state, and (for the record of the run) the list the
\* run had obtained, the watermark it started from and whether it persisted.
ProcessExit(keepBlocks) ==
    /\ latest' = 0 /\ startBlock' = 0 /\ endBlock' = 0
    /\ blocks' = IF keepBlocks THEN blocks ELSE <<>>
    /\ tx_filtered' = <<>>
    /\ blockChan' = <<>> /\ blockChanClosed' = FALSE /\ resultChan' = <<>>
    /\ feederNext' = 0 /\ feederDone' = FALSE
    /\ wpc' = [w \in WorkerIds |-> "done"]
    /\ wres' = [w \in WorkerIds |-> [Block |-> 0, Error |-> FALSE]]
    /\ allBlocks' = <<>> /\ ErrorsEncountered' = 0 /\ BlocksParsed' = 0
    /\ parsedOK' = {} /\ parsedFail' = {} /\ statsAtReturn' = 0
    /\ clamped' = FALSE
    /\ UNCHANGED <<runs, wmAtStart, baseWm, handed>>

\* A new process starts (cron): memory is fresh, the files and the table are
\* what earlier runs left, and the chain may have grown.
StartRun ==
    /\ pc \in ExitedPcs
    /\ runs < MaxRuns
    /\ runs' = runs + 1
    /\ \E h \in head..MaxHead : head' = h
    /\ pc' = "get_latest"
    /\ latest' = 0 /\ startBlock' = 0 /\ endBlock' = 0
    /\ blocks' = <<>> /\ tx_filtered' = <<>>
    /\ blockChan' = <<>> /\ blockChanClosed' = FALSE /\ resultChan' = <<>>
    /\ feederNext' = 0 /\ feederDone' = FALSE
    /\ wpc' = [w \in WorkerIds |-> "done"]
    /\ wres' = [w \in WorkerIds |-> [Block |-> 0, Error |-> FALSE]]
    /\ allBlocks' = <<>> /\ ErrorsEncountered' = 0 /\ BlocksParsed' = 0
    /\ wmAtStart' = Watermark
    /\ parsedOK' = {} /\ parsedFail' = {} /\ statsAtReturn' = 0
    /\ clamped' = FALSE /\ persisted' = FALSE
    /\ UNCHANGED <<lastBlockFile, csvFile, txStore, baseWm, handed, retryVars, pureVars,
                   storeVars, procVars, cancelVars, numWorkers, gateVars>>

\* GetLatestBlockNumber fails after its retries: log.Fatalf
GetLatestFails ==
    /\ pc = "get_latest"
    /\ pc' = "fatal_rpc"
    /\ ProcessExit(FALSE)
    /\ UNCHANGED <<durableVars, persisted, retryVars, pureVars,
                   storeVars, procVars, cancelVars, numWorkers, gateVars>>

StartWorkersOneMore(n) == [w \in WorkerIds |-> IF w <= n + 1 THEN "recv" ELSE "done"]

\* for i := 0; i < p.config.Workers; i++ { wg.Add(1); go ... p.worker(...) }
StartWorkers(n) == [w \in WorkerIds |-> IF w <= n THEN "recv" ELSE "done"]

\* latest, startBlock, endBlock, and the start of ParseBlockRange: the
\* channels are made, the workers, the collector and the feeder are started
BeginParse ==
    /\ pc = "get_latest"
    /\ LET r == FetchRange(ReadLastBlock(lastBlockFile), head)
       IN  /\ latest' = head
           /\ startBlock' = r.start
           /\ endBlock' = r.end
           /\ clamped' = r.clamp
           /\ feederNext' = r.start
           /\ baseWm' = IF r.clamp THEN -1
                        ELSE IF baseWm = -1 THEN ReadLastBlock(lastBlockFile) ELSE baseWm
           /\ handed' = IF r.clamp \/ baseWm = -1 THEN {} ELSE handed
    /\ wpc' = StartWorkers(numWorkers)
    /\ pc' = "parsing"
    /\ UNCHANGED <<durableVars, blocks, tx_filtered, runs,
                   blockChan, blockChanClosed, resultChan, feederDone, wres,
                   allBlocks, ErrorsEncountered, BlocksParsed,
                   wmAtStart, parsedOK, parsedFail, statsAtReturn, persisted,
                   retryVars, pureVars,
                   storeVars, procVars, cancelVars, numWorkers, gateVars>>

(***************************************************************************)
(* ParseBlockRange (pkg/parser/parser.go)                                  *)
(***************************************************************************)
FeedSkipsOne ==
    /\ pc = "parsing" /\ ~feederDone
    /\ feederNext <= endBlock
    /\ Len(blockChan) < 2 * numWorkers
    /\ blockChan' = Append(blockChan, feederNext)
    /\ feederNext' = UAdd(feederNext, 2)
    /\ UNCHANGED <<durableVars, mainVars, blockChanClosed, resultChan, feederDone, wpc, wres,
                   allBlocks, ErrorsEncountered, BlocksParsed, histVars, retryVars, pureVars,
                   storeVars, procVars, cancelVars, numWorkers, gateVars>>

\* the feeder returns without the deferred close(blockChan)
FeedCloseForgotten ==
    /\ pc = "parsing" /\ ~feederDone
    /\ feederNext > endBlock
    /\ feederDone' = TRUE
    /\ UNCHANGED <<durableVars, mainVars, blockChan, blockChanClosed, resultChan, feederNext, wpc,
                   wres, allBlocks, ErrorsEncountered, BlocksParsed, histVars, retryVars, pureVars,
                   storeVars, procVars, cancelVars, numWorkers, gateVars>>

\* feeder goroutine: blockChan <- blockNum
Feed ==
    /\ pc = "parsing" /\ ~feederDone
    /\ feederNext <= endBlock
    /\ Len(blockChan) < 2 * numWorkers
    /\ blockChan' = Append(blockChan, feederNext)
    /\ feederNext' = UAdd(feederNext, 1)
    /\ UNCHANGED <<durableVars, mainVars, blockChanClosed, resultChan, feederDone, wpc, wres,
                   allBlocks, ErrorsEncountered, BlocksParsed, histVars, retryVars, pureVars,
                   storeVars, procVars, cancelVars, numWorkers, gateVars>>

\* feeder goroutine: the loop ends, defer close(blockChan)
FeedClose ==
    /\ pc = "parsing" /\ ~feederDone
    /\ feederNext > endBlock
    /\ blockChanClosed' = TRUE
    /\ feederDone' = TRUE
    /\ UNCHANGED <<durableVars, mainVars, blockChan, resultChan, feederNext, wpc, wres,
                   allBlocks, ErrorsEncountered, BlocksParsed, histVars, retryVars, pureVars,
                   storeVars, procVars, cancelVars, numWorkers, gateVars>>

\* worker: blockNum := <-blockChan, then ParseSingleBlock, which fails or not;
\* with the context already cancelled every request of ParseSingleBlock fails.
\* The select also offers <-ctx.Done(): when both can proceed either is taken.
WorkerParse(w) ==
    /\ pc = "parsing" /\ wpc[w] = "recv"
    /\ Len(blockChan) > 0
    /\ wtakenAfter' = IF cancelled THEN [wtakenAfter EXCEPT ![w] = @ \cup {Head(blockChan)}]
                       ELSE wtakenAfter
    /\ \E failed \in (IF cancelled THEN {TRUE} ELSE BOOLEAN) :
         /\ wres' = [wres EXCEPT ![w] = [Block |-> Head(blockChan), Error |-> failed]]
         /\ parsedOK' = IF failed THEN parsedOK ELSE parsedOK \cup {Head(blockChan)}
         /\ parsedFail' = IF failed THEN parsedFail \cup {Head(blockChan)} ELSE parsedFail
    /\ blockChan' = Tail(blockChan)
    /\ wpc' = [wpc EXCEPT ![w] = "send"]
    /\ UNCHANGED <<durableVars, mainVars, blockChanClosed, resultChan, feederNext, feederDone,
                   allBlocks, ErrorsEncountered, BlocksParsed,
                   wmAtStart, statsAtReturn, clamped, persisted, baseWm, handed,
                   retryVars, pureVars,
                   storeVars, procVars, cancelled, feederAtCancel, numWorkers, gateVars>>

\* worker: resultChan <- &ParseResult{...}; the loop's locals are dead until the
\* next receive
WorkerSend(w) ==
    /\ pc = "parsing" /\ wpc[w] = "send"
    /\ Len(resultChan) < numWorkers
    /\ resultChan' = Append(resultChan, wres[w])
    /\ wres' = [wres EXCEPT ![w] = [Block |-> 0, Error |-> FALSE]]
    /\ wpc' = [wpc EXCEPT ![w] = "recv"]
    /\ UNCHANGED <<durableVars, mainVars, blockChan, blockChanClosed, feederNext, feederDone,
                   allBlocks, ErrorsEncountered, BlocksParsed, histVars, retryVars, pureVars,
                   storeVars, procVars, cancelVars, numWorkers, gateVars>>

\* worker: blockChan is closed and drained, return (wg.Done)
WorkerExit(w) ==
    /\ pc = "parsing" /\ wpc[w] = "recv"
    /\ Len(blockChan) = 0 /\ blockChanClosed
    /\ wpc' = [wpc EXCEPT ![w] = "done"]
    /\ UNCHANGED <<durableVars, mainVars, blockChan, blockChanClosed, resultChan, feederNext,
                   feederDone, wres, allBlocks, ErrorsEncountered, BlocksParsed,
                   histVars, retryVars, pureVars,
                   storeVars, procVars, cancelVars, numWorkers, gateVars>>

\* the caller's context is cancelled (deadline or external stop)
Cancel ==
    /\ pc = "parsing" /\ ~cancelled
    /\ cancelled' = TRUE
    /\ feederAtCancel' = feederNext
    /\ UNCHANGED <<durableVars, mainVars, rangeVars, histVars, retryVars, pureVars,
                   storeVars, procVars, wtakenAfter, numWorkers, gateVars>>

\* feeder goroutine: case <-ctx.Done(): return, then defer close(blockChan)
FeedCancelled ==
    /\ pc = "parsing" /\ ~feederDone
    /\ cancelled
    /\ feederNext <= endBlock
    /\ blockChanClosed' = TRUE
    /\ feederDone' = TRUE
    /\ UNCHANGED <<durableVars, mainVars, blockChan, resultChan, feederNext, wpc, wres,
                   allBlocks, ErrorsEncountered, BlocksParsed, histVars, retryVars, pureVars,
                   storeVars, procVars, cancelVars, numWorkers, gateVars>>

\* worker: case <-ctx.Done(): return (wg.Done)
WorkerCancelled(w) ==
    /\ pc = "parsing" /\ wpc[w] = "recv"
    /\ cancelled
    /\ wpc' = [wpc EXCEPT ![w] = "done"]
    /\ UNCHANGED <<durableVars, mainVars, blockChan, blockChanClosed, resultChan, feederNext,
                   feederDone, wres, allBlocks, ErrorsEncountered, BlocksParsed,
                   histVars, retryVars, pureVars,
                   storeVars, procVars, cancelVars, numWorkers, gateVars>>

\* collector goroutine: one iteration of "for result := range resultChan"
Collect ==
    /\ pc = "parsing"
    /\ Len(resultChan) > 0
    /\ LET result == Head(resultChan)
       IN  IF result.Error
           THEN /\ ErrorsEncountered' = ErrorsEncountered + 1
                /\ UNCHANGED <<allBlocks, BlocksParsed>>
           ELSE /\ allBlocks' = Append(allBlocks, result.Block)
                /\ BlocksParsed' = BlocksParsed + 1
                /\ UNCHANGED ErrorsEncountered
    /\ resultChan' = Tail(resultChan)
    /\ UNCHANGED <<durableVars, mainVars, blockChan, blockChanClosed, feederNext, feederDone,
                   wpc, wres, histVars, retryVars, pureVars,
                   storeVars, procVars, cancelVars, numWorkers, gateVars>>

\* wg.Wait() is over: close(resultChan); return allBlocks, nil.  Nothing waits
\* for the collector: the list returned is allBlocks as it is at this moment.
ParseReturn ==
    /\ pc = "parsing"
    /\ \A w \in WorkerIds : wpc[w] = "done"
    /\ blocks' = allBlocks
    /\ statsAtReturn' = ErrorsEncountered
    /\ pc' = "returned"
    /\ UNCHANGED <<durableVars, latest, startBlock, endBlock, tx_filtered, runs, rangeVars,
                   wmAtStart, parsedOK, parsedFail, clamped, persisted, baseWm, handed,
                   retryVars, pureVars,
                   storeVars, procVars, cancelVars, numWorkers, gateVars>>

(***************************************************************************)
(* Coordinator, after ParseBlockRange                                      *)
(***************************************************************************)
\* lastBlock := blocks[len(blocks)-1].Number with an empty list: index out of range
PanicNoBlocks ==
    /\ pc = "returned"
    /\ Len(blocks) = 0
    /\ pc' = "panic"
    /\ ProcessExit(FALSE)
    /\ UNCHANGED <<durableVars, persisted, retryVars, pureVars,
                   storeVars, procVars, cancelVars, numWorkers, gateVars>>

LastBlockMax(blks) == MaxOf(SeqRange(blks))

\* lastBlock := blocks[len(blocks)-1].Number
LastBlock(blks) == blks[Len(blks)]

\* filtering.WriteLastBlock(config.LastBlockPath, lastBlock)
WriteWatermark ==
    /\ pc = "returned"
    /\ Len(blocks) > 0
    /\ lastBlockFile' = WriteLastBlock(lastBlockFile, LastBlock(blocks))
    /\ pc' = "filter"
    /\ UNCHANGED <<csvFile, txStore, head, latest, startBlock, endBlock, blocks, tx_filtered, runs,
                   rangeVars, histVars, retryVars, pureVars,
                   storeVars, procVars, cancelVars, numWorkers, gateVars>>

\* tx_filtered := filtering.ParseWhaleTransactions(...)
FilterStep ==
    /\ pc = "filter"
    /\ tx_filtered' = ParseWhaleTransactions(ChainBlocks(blocks), WhalesAddrsID, MinETHValue)
    /\ handed' = IF baseWm = -1 THEN handed ELSE handed \cup SeqRange(blocks)
    /\ pc' = "csv"
    /\ UNCHANGED <<durableVars, latest, startBlock, endBlock, blocks, runs, rangeVars,
                   wmAtStart, parsedOK, parsedFail, statsAtReturn, clamped, persisted, baseWm,
                   retryVars, pureVars,
                   storeVars, procVars, cancelVars, numWorkers, gateVars>>

\* filtering.AppendCSV(config.CsvPath, whale_txn)
AppendCSV ==
    /\ pc = "csv"
    /\ csvFile' = csvFile \o TransformTxsToCsv(tx_filtered, WhalesAddr)
    /\ pc' = "db"
    /\ UNCHANGED <<lastBlockFile, txStore, head, latest, startBlock, endBlock, blocks, tx_filtered,
                   runs, rangeVars, histVars, retryVars, pureVars,
                   storeVars, procVars, cancelVars, numWorkers, gateVars>>

\* AppendCSV cannot open or write the file: log.Fatalf
AppendCSVFails ==
    /\ pc = "csv"
    /\ pc' = "fatal_persist"
    /\ ProcessExit(FALSE)
    /\ UNCHANGED <<durableVars, persisted, retryVars, pureVars,
                   storeVars, procVars, cancelVars, numWorkers, gateVars>>

\* txRepo.BatchInsert returns nil: INSERT OR REPLACE by tx_hash
BatchInsert ==
    /\ pc = "db"
    /\ txStore' = txStore \cup {tx_filtered[i].TxHash : i \in 1..Len(tx_filtered)}
    /\ persisted' = TRUE
    /\ pc' = "done"
    /\ ProcessExit(FALSE)
    /\ UNCHANGED <<lastBlockFile, csvFile, head, retryVars, pureVars,
                   storeVars, procVars, cancelVars, numWorkers, gateVars>>

\* txRepo.BatchInsert returns an error (the transaction is rolled back): logger.Fatalf
BatchInsertFails ==
    /\ pc = "db"
    /\ pc' = "fatal_persist"
    /\ ProcessExit(FALSE)
    /\ UNCHANGED <<durableVars, persisted, retryVars, pureVars,
                   storeVars, procVars, cancelVars, numWorkers, gateVars>>

\* the process is killed (power loss, reboot, OOM) at any point of the run
Crash ==
    /\ pc \in RunningPcs
    /\ pc' = "crashed"
    /\ ProcessExit(TRUE)
    /\ UNCHANGED <<durableVars, persisted, retryVars, pureVars,
                   storeVars, procVars, cancelVars, numWorkers, gateVars>>

(***************************************************************************)
(* executeWithRetry and the rate-limit gate (pkg/client/eth_client.go)     *)
(***************************************************************************)
CallerIds == 1..Callers

RetryLoopContinuesOneMore(a) == a <= Retries + 1

\* the loop condition "attempt <= c.retries"
RetryLoopContinues(a) == a <= Retries

GateAlwaysOpen == TRUE

\* waitForRateLimit returns at once unless c.isInfura && c.rateLimiter != nil;
\* then it needs a tick from c.rateLimiter.C
GateOpen == ~isInfura \/ tick
GateTake == IF isInfura THEN FALSE ELSE tick

\* c.waitForRateLimit() followed by one request on the connection
PassGate ==
    /\ GateOpen
    /\ tick' = GateTake
    /\ taken' = IF isInfura /\ tick THEN taken + 1 ELSE taken
    /\ reqs' = reqs + 1

\* time.Second in nanoseconds is 5^9 * 2^9
FiveToNine == 1953125

\* the largest attempt for which baseDelay * 2^att fits 63 bits
MaxExactAttempt == 33

BackoffUncapped(att) ==
    IF att >= 55 THEN [kind |-> "seconds", v |-> 0]
    ELSE IF att > MaxExactAttempt
    THEN LET bits == 55 - att
             m    == FiveToNine % (2 ^ bits)
         IN  IF m >= 2 ^ (bits - 1) THEN [kind |-> "negative", v |-> 0]
             ELSE [kind |-> "seconds", v |-> 60]
    ELSE [kind |-> "seconds", v |-> 2 ^ (IF att > 30 THEN 30 ELSE att)]

\* delay := baseDelay * time.Duration(1<<uint(attempt)); if delay > maxDelay
\* { delay = maxDelay }, in 64-bit signed nanoseconds.  The product is
\* 5^9 * 2^(attempt+9) modulo 2^64: the low 55-attempt bits of 5^9 shifted
\* left, zero from attempt 55 on, negative when the top bit kept is set; a
\* wrapped positive product is at least 2^43 ns, which is above maxDelay.
\* The result is in seconds, or "negative".
calculateRateLimitBackoff(att) ==
    IF att >= 55 THEN [kind |-> "seconds", v |-> 0]
    ELSE IF att > MaxExactAttempt
    THEN LET bits == 55 - att
             m    == FiveToNine % (2 ^ bits)
         IN  IF m >= 2 ^ (bits - 1) THEN [kind |-> "negative", v |-> 0]
             ELSE [kind |-> "seconds", v |-> 60]
    ELSE IF att >= 6 THEN [kind |-> "seconds", v |-> 60]
    ELSE [kind |-> "seconds", v |-> 2 ^ att]

ApplyBackoff ==
    /\ hin.fn = "calculateRateLimitBackoff"
    /\ ~hout.done
    /\ hout' = [done |-> TRUE, res |-> calculateRateLimitBackoff(hin.attempt)]
    /\ UNCHANGED <<durableVars, mainVars, rangeVars, histVars, retryVars,
                   fin, fout, cin, cout, gin, gout, bin, bout, vin, vout, win, wout, hin,
                   storeVars, procVars, cancelVars, numWorkers, gateVars>>

\* fn has returned err: the loop counts it by its kind
FnFails(c, kind) ==
    /\ rpc' = [rpc EXCEPT ![c] = "loop"]
    /\ attempt' = [attempt EXCEPT ![c] = @ + 1]
    /\ lastErr' = [lastErr EXCEPT ![c] = kind]
    /\ IF kind = "ratelimit"
       THEN rlFails' = [rlFails EXCEPT ![c] = @ + 1] /\ UNCHANGED otherFails
       ELSE otherFails' = [otherFails EXCEPT ![c] = @ + 1] /\ UNCHANGED rlFails
    /\ UNCHANGED succ

\* fn has returned a result
FnReturns(c) ==
    /\ rpc' = [rpc EXCEPT ![c] = "ok"]
    /\ succ' = [succ EXCEPT ![c] = @ + 1]
    /\ UNCHANGED <<attempt, rlFails, otherFails, lastErr>>

\* the ticker fires: a tick is dropped when one is already waiting
Tick ==
    /\ isInfura /\ ~tickerStopped /\ ~tick
    /\ tick' = TRUE
    /\ UNCHANGED <<durableVars, mainVars, rangeVars, histVars, pureVars,
                   isInfura, tickerStopped, rpc, attempt, calls, succ,
                   rlFails, otherFails, reconnFails,
                   storeVars, procVars, cancelVars, numWorkers, gateVars>>

\* a goroutine enters executeWithRetry: attempt := 0
RetryCall(c) ==
    /\ rpc[c] = "idle"
    /\ rpc' = [rpc EXCEPT ![c] = "loop"]
    /\ UNCHANGED <<durableVars, mainVars, rangeVars, histVars, pureVars,
                   isInfura, tickerStopped, tick, attempt, calls, succ,
                   rlFails, otherFails, reconnFails,
                   storeVars, procVars, cancelVars, numWorkers, gateVars>>

\* loop head: leave the loop, or go on to the first attempt, or sleep
\* attempt seconds before a retry
RetryLoop(c) ==
    /\ rpc[c] = "loop"
    /\ rpc' = [rpc EXCEPT ![c] =
                 IF ~RetryLoopContinues(attempt[c]) THEN "exhausted"
                 ELSE IF attempt[c] > 0 THEN "reconnect"
                 ELSE "gate"]
    /\ UNCHANGED <<durableVars, mainVars, rangeVars, histVars, pureVars,
                   isInfura, tickerStopped, tick, attempt, calls, succ,
                   rlFails, otherFails, reconnFails,
                   storeVars, procVars, cancelVars, numWorkers, gateVars>>

\* Reconnect: Close() stops the ticker and closes the connection, then connect()
\* dials.  A tick already in the channel stays or not (it depends on the Go
\* runtime's timer channels); the ticker is never started again.
RetryReconnect(c) ==
    /\ rpc[c] = "reconnect"
    /\ tickerStopped' = (isInfura \/ tickerStopped)
    /\ \E keep \in BOOLEAN : tick' = (tick /\ (keep \/ ~isInfura))
    /\ \E dialed \in BOOLEAN :
         IF dialed
         THEN /\ rpc' = [rpc EXCEPT ![c] = "conn_gate"]
              /\ UNCHANGED <<attempt, reconnFails>>
         ELSE \* "Failed to reconnect": continue
              /\ rpc' = [rpc EXCEPT ![c] = "loop"]
              /\ attempt' = [attempt EXCEPT ![c] = @ + 1]
              /\ reconnFails' = [reconnFails EXCEPT ![c] = @ + 1]
    /\ UNCHANGED <<durableVars, mainVars, rangeVars, histVars, pureVars,
                   isInfura, calls, succ, rlFails, otherFails,
                   storeVars, procVars, cancelVars, numWorkers, gateVars>>

\* connect(): c.waitForRateLimit(), then the NetworkID check
RetryConnCheck(c) ==
    /\ rpc[c] = "conn_gate"
    /\ PassGate
    /\ \E verified \in BOOLEAN :
         IF verified
         THEN /\ rpc' = [rpc EXCEPT ![c] = "gate"]
              /\ UNCHANGED <<attempt, reconnFails>>
         ELSE /\ rpc' = [rpc EXCEPT ![c] = "loop"]
              /\ attempt' = [attempt EXCEPT ![c] = @ + 1]
              /\ reconnFails' = [reconnFails EXCEPT ![c] = @ + 1]
    /\ UNCHANGED <<durableVars, mainVars, rangeVars, histVars, pureVars,
                   isInfura, tickerStopped, calls, succ, rlFails, otherFails,
                   storeVars, procVars, cancelVars, numWorkers, lastErr>>

\* c.waitForRateLimit(); result, err = fn(): success returns, a rate-limit
\* error sleeps the backoff and continues, another error falls to the loop's
\* increment.  The fn of GetBlockByNumber goes on to the raw-block path when
\* the error is "transaction type not supported".
RetryAttempt(c) ==
    /\ rpc[c] = "gate"
    /\ PassGate
    /\ calls' = [calls EXCEPT ![c] = @ + 1]
    /\ \E outcome \in {"ok", "ratelimit", "other", "unsupported"} :
         CASE outcome = "ok" -> FnReturns(c)
           [] outcome = "unsupported" ->
                /\ rpc' = [rpc EXCEPT ![c] = "raw_gate"]
                /\ UNCHANGED <<attempt, succ, rlFails, otherFails, lastErr>>
           [] OTHER -> FnFails(c, outcome)
    /\ UNCHANGED <<durableVars, mainVars, rangeVars, histVars, pureVars,
                   isInfura, tickerStopped, reconnFails,
                   storeVars, procVars, cancelVars, numWorkers>>

\* getBlockWithFilteredTransactions: c.waitForRateLimit(), the raw
\* eth_getBlockByNumber call; a failed call or an unreadable header goes on to
\* the header-only path, a nil result is the error "block not found"
RetryRawBlock(c) ==
    /\ rpc[c] = "raw_gate"
    /\ PassGate
    /\ \E outcome \in {"ok", "notfound", "header_only"} :
         CASE outcome = "ok" -> FnReturns(c)
           [] outcome = "notfound" -> FnFails(c, "other")
           [] outcome = "header_only" ->
                /\ rpc' = [rpc EXCEPT ![c] = "hdr_gate"]
                /\ UNCHANGED <<attempt, succ, rlFails, otherFails, lastErr>>
    /\ UNCHANGED <<durableVars, mainVars, rangeVars, histVars, pureVars,
                   isInfura, tickerStopped, calls, reconnFails,
                   storeVars, procVars, cancelVars, numWorkers>>

\* getBlockWithHeaderOnly: c.waitForRateLimit(), HeaderByNumber; its error is
\* wrapped with %w, so it keeps its kind
RetryHeaderOnly(c) ==
    /\ rpc[c] = "hdr_gate"
    /\ PassGate
    /\ \E outcome \in {"ok", "ratelimit", "other"} :
         IF outcome = "ok" THEN FnReturns(c) ELSE FnFails(c, outcome)
    /\ UNCHANGED <<durableVars, mainVars, rangeVars, histVars, pureVars,
                   isInfura, tickerStopped, calls, reconnFails,
                   storeVars, procVars, cancelVars, numWorkers>>

CallerStep(c) ==
    \/ RetryCall(c)
    \/ RetryLoop(c)
    \/ RetryReconnect(c)
    \/ RetryConnCheck(c)
    \/ RetryAttempt(c)
    \/ RetryRawBlock(c)
    \/ RetryHeaderOnly(c)

(***************************************************************************)
(* Harnesses for the pure functions                                        *)
(***************************************************************************)
FromAddrs  == {"0xaa", "0xAA", "0xBB", "0xC1", "unknown"}
ToAddrs    == {NoAddr, "0xaa", "0xBB", "0xC1", "0xc2"}
TestValues == {ZeroWei, HalfETH, JustBelow, RoundsUp, NearOneETH, ETH(1), ETH(2), ETH(5)}
MinETHs    == {1, 3}

FirstTxs  == {[Hash |-> 1, BlockNumber |-> 1, From |-> f, To |-> t, Value |-> v] :
                 f \in FromAddrs, t \in ToAddrs, v \in TestValues}
SecondTxs == {[Hash |-> 2, BlockNumber |-> 1, From |-> "0xC1", To |-> "0xaa", Value |-> ETH(2)],
              [Hash |-> 2, BlockNumber |-> 1, From |-> "0xBB", To |-> NoAddr, Value |-> ETH(5)],
              [Hash |-> 2, BlockNumber |-> 1, From |-> "0xC1", To |-> "0xc2", Value |-> ETH(5)]}

\* the two transactions in one block, or in two blocks given newest first
BlockLayouts(t1, t2) ==
    { << [Number |-> 1, Transactions |-> <<t1, t2>>] >>,
      << [Number |-> 2, Transactions |-> <<[t2 EXCEPT !.BlockNumber = 2]>>],
         [Number |-> 1, Transactions |-> <<t1>>] >> }

\* the maps handed to the filter: address -> id as a string, and the
\* address -> label map of the configuration
WatchMaps == {WhalesAddrsID, WhalesAddr}

ApplyFilter ==
    /\ ~fout.done
    /\ fout' = [done |-> TRUE, res |-> ParseWhaleTransactions(fin.blocks, fin.ids, fin.minETH)]
    /\ UNCHANGED <<durableVars, mainVars, rangeVars, histVars, retryVars, fin, cin, hin, hout, cout, gin, gout, bin, bout, win, wout, vin, vout,
                   storeVars, procVars, cancelVars, numWorkers, gateVars>>

ApplyClamp ==
    /\ ~cout.done
    /\ cout' = [done |-> TRUE, res |-> FetchRange(cin.wm, cin.latest)]
    /\ UNCHANGED <<durableVars, mainVars, rangeVars, histVars, retryVars, fin, fout, cin, hin, hout, gin, gout, bin, bout, win, wout, vin, vout,
                   storeVars, procVars, cancelVars, numWorkers, gateVars>>

\* wei amounts for gweiToETH: units of 10^-5 ETH above a 13-digit tail
ConvUnits == {0, 1, 13, 9999, 12345, 99999, 100000, 123456, 299999, 1000000}
ConvTails == { Zeros(13),
               <<4>> \o Zeros(12),
               <<4, 9, 9, 9, 9, 9, 9, 9, 9, 9, 9, 9, 9>>,
               <<5>> \o Zeros(12),
               <<5, 0, 0, 0, 0, 0, 0, 0, 0, 0, 0, 0, 1>>,
               <<9, 9, 9, 9, 9, 9, 9, 9, 9, 9, 9, 9, 9>>,
               <<7, 8, 9, 0, 1, 2, 3, 4, 5, 6, 7, 8, 9>>,
               <<3, 4, 3, 6, 5, 0, 9, 1, 0, 8, 6, 9, 9>>,
               Zeros(12) \o <<1>> }

\* big.Int.String(): no leading zeros, "0" for zero
RECURSIVE StripLeadingZeros(_)
StripLeadingZeros(ds) ==
    IF Len(ds) > 1 /\ ds[1] = 0 THEN StripLeadingZeros(Tail(ds)) ELSE ds

WeiOf(units, tail) ==
    IF units = 0 THEN StripLeadingZeros(tail) ELSE NatToDigits(units) \o tail

ApplyConvert ==
    /\ ~gout.done
    /\ gout' = [done |-> TRUE, res |-> gweiToETH(gin.wei)]
    /\ UNCHANGED <<durableVars, mainVars, rangeVars, histVars, retryVars, fin, fout, cin, hin, hout, cout, gin, bin, bout, win, wout, vin, vout,
                   storeVars, procVars, cancelVars, numWorkers, gateVars>>

(***************************************************************************)
(* ParseSingleBlock and the large-block policy (pkg/parser/parser.go)      *)
(***************************************************************************)
\* Status value for "receipt not fetched"
StatusNotFetched == 2

\* a nil entry of the receipts slice
NilReceipt == [GasUsed |-> -1, Status |-> -1]

IsLargeBlockAtThreshold(cfg, n) == cfg.SkipReceiptsOnLargeBlocks /\ n >= cfg.MaxTransactionsForReceipts

\* p.config.SkipReceiptsOnLargeBlocks && len(...) > p.config.MaxTransactionsForReceipts
IsLargeBlock(cfg, n) == cfg.SkipReceiptsOnLargeBlocks /\ n > cfg.MaxTransactionsForReceipts

parseTransactionWithoutReceipt(gethTx, txIndex) ==
    [Hash |-> gethTx.Hash, TransactionIndex |-> txIndex,
     From |-> gethTx.From, To |-> gethTx.To, Value |-> gethTx.Value,
     GasUsed |-> 0, Status |-> StatusNotFetched]

\* parseTransactionSafely: receipt data is added when the receipt is there,
\* GasUsed and Status keep Go's zero value otherwise
parseTransactionSafely(gethTx, txIndex, receipts) ==
    LET have == txIndex + 1 <= Len(receipts) /\ receipts[txIndex + 1] # NilReceipt
    IN  [Hash |-> gethTx.Hash, TransactionIndex |-> txIndex,
         From |-> gethTx.From, To |-> gethTx.To, Value |-> gethTx.Value,
         GasUsed |-> IF have THEN receipts[txIndex + 1].GasUsed ELSE 0,
         Status  |-> IF have THEN receipts[txIndex + 1].Status ELSE 0]

\* parseBlockTransactions: [err, txs, receiptCalls], receiptCalls the number
\* of calls of GetTransactionReceiptsBatch
parseBlockTransactions(cfg, blockTxs, batchFails, receipts) ==
    IF Len(blockTxs) = 0
    THEN [err |-> FALSE, txs |-> <<>>, receiptCalls |-> 0]
    ELSE IF IsLargeBlock(cfg, Len(blockTxs))
    THEN [err |-> FALSE,
          txs |-> [i \in 1..Len(blockTxs) |-> parseTransactionWithoutReceipt(blockTxs[i], i - 1)],
          receiptCalls |-> 0]
    ELSE IF cfg.IncludeLogs
    THEN IF batchFails
         THEN [err |-> TRUE, txs |-> <<>>, receiptCalls |-> 1]
         ELSE [err |-> FALSE,
               txs |-> [i \in 1..Len(blockTxs) |-> parseTransactionSafely(blockTxs[i], i - 1, receipts)],
               receiptCalls |-> 1]
    \* the outer parsedTxs, never assigned
    ELSE [err |-> FALSE, txs |-> <<>>, receiptCalls |-> 0]

\* ParseSingleBlock: [err, Transactions, receiptCalls]
ParseSingleBlock(cfg, blockFails, blockTxs, batchFails, receipts) ==
    IF blockFails
    THEN [err |-> TRUE, Transactions |-> <<>>, receiptCalls |-> 0]
    ELSE LET r == parseBlockTransactions(cfg, blockTxs, batchFails, receipts)
         IN  IF r.err
             THEN [err |-> TRUE, Transactions |-> <<>>, receiptCalls |-> r.receiptCalls]
             ELSE [err |-> FALSE,
                   Transactions |->
                       IF IsLargeBlock(cfg, Len(r.txs))
                       THEN [i \in 1..Len(r.txs) |->
                               [r.txs[i] EXCEPT !.GasUsed = 0, !.Status = StatusNotFetched]]
                       ELSE r.txs,
                   receiptCalls |-> r.receiptCalls]

\* receipt.Status of a transaction that was executed and reverted
StatusFailed == 0

\* the nil *int of the database record
NoStatus == -1

\* the status column MapParsedTxToDatabaseTx writes: the value when it is 0
\* or 1, NULL otherwise
DbStatus(status) == IF status = 1 \/ status = 0 THEN status ELSE NoStatus

\* the transactions of the block GetBlockByNumber returned, in chain order
GethTx(k) ==
    [Hash |-> k, From |-> IF k = 2 THEN "0xAA" ELSE "0xC1",
     To |-> IF k = 3 THEN NoAddr ELSE "0xBB", Value |-> ETH(k)]
GethTxs(n) == [k \in 1..n |-> GethTx(k)]

Receipts == {NilReceipt, [GasUsed |-> 21, Status |-> 1], [GasUsed |-> 50, Status |-> 0]}
Thresholds == {1, 2}
ParserConfigs ==
    [SkipReceiptsOnLargeBlocks : BOOLEAN, MaxTransactionsForReceipts : Thresholds,
     IncludeLogs : BOOLEAN]

ApplyParseBlock ==
    /\ ~bout.done
    /\ bout' = [done |-> TRUE,
                res |-> ParseSingleBlock(bin.cfg, bin.blockFails, bin.txs, bin.batchFails, bin.receipts)]
    /\ UNCHANGED <<durableVars, mainVars, rangeVars, histVars, retryVars,
                   fin, fout, cin, hin, hout, cout, gin, gout, bin, win, wout, vin, vout,
                   storeVars, procVars, cancelVars, numWorkers, gateVars>>

(***************************************************************************)
(* GetBlockByNumber's decode fallback (pkg/client/eth_client.go), the      *)
(* sender recovery of the parser, and one block's way to the watermark     *)
(***************************************************************************)
\* the kinds of entry of the raw block's "transactions" array: a legacy
\* transaction signed without chain id, one signed with it, a fee-market
\* transaction, one of a type the decoder does not know, an object the
\* decoder rejects for another reason, and an entry that is not an object
WireKinds == {"legacy", "eip155", "dynfee", "blob", "malformed", "notmap"}
DecodableKinds == {"legacy", "eip155", "dynfee"}

WireType(kind) ==
    CASE kind = "dynfee" -> 2
      [] kind = "blob" -> 3
      [] OTHER -> 0

\* Transaction.Hash(): the digest of the encoded type, fields and signature,
\* one value per content
TxHash(type, nonce, gasPrice, gas, to, value, signer) ==
    <<type, nonce, gasPrice, gas, to, value, signer>>

\* entry k of the wire block; the node computed "hash" and "from" from the
\* signed transaction
WireTx(k, kind) ==
    LET from == IF k = 2 THEN "0xAA" ELSE "0xC1"
        to   == IF k = 3 THEN NoAddr ELSE IF k = 2 THEN "0xC1" ELSE "0xBB"
    IN  [kind |-> kind, type |-> WireType(kind),
         hash |-> TxHash(WireType(kind), k, 7, 21, to, ETH(k), from),
         from |-> from, to |-> to, value |-> ETH(k), gas |-> 21, gasPrice |-> 7,
         nonce |-> k, chainId |-> IF kind = "legacy" THEN 0 ELSE 1]

\* tx.UnmarshalJSON of an entry the decoder knows
DecodedTx(w) ==
    [Hash |-> TxHash(w.type, w.nonce, w.gasPrice, w.gas, w.to, w.value, w.from),
     Type |-> w.type, ChainId |-> w.chainId, Protected |-> w.kind = "eip155",
     Signer |-> w.from, To |-> w.to, Value |-> w.value, Gas |-> w.gas,
     GasPrice |-> w.gasPrice, Nonce |-> w.nonce]

\* Transaction.ChainId() of a legacy transaction whose V is 0: (V - 35) / 2
\* in unsigned arithmetic
UnsignedChainId == (Uint64Mod - 35) \div 2

\* createFallbackTransaction: types.NewTx of a LegacyTx holding nonce, gas
\* price, gas, to and value; "hash" and "from" are read and printed only, the
\* transaction carries no signature
createFallbackTransaction(w) ==
    [Hash |-> TxHash(0, w.nonce, w.gasPrice, w.gas, w.to, w.value, "none"),
     Type |-> 0, ChainId |-> UnsignedChainId, Protected |-> FALSE,
     Signer |-> "none", To |-> w.to, Value |-> w.value, Gas |-> w.gas,
     GasPrice |-> w.gasPrice, Nonce |-> w.nonce]

\* parseTransaction: [err, tx]
parseTransaction(w) ==
    IF w.kind \in DecodableKinds THEN [err |-> FALSE, tx |-> DecodedTx(w)]
    ELSE IF w.kind = "blob" THEN [err |-> FALSE, tx |-> createFallbackTransaction(w)]
    ELSE [err |-> TRUE, tx |-> DecodedTx(w)]

RECURSIVE ClientParseMissesNonObjects(_)
ClientParseMissesNonObjects(txsData) ==
    IF Len(txsData) = 0 THEN [txs |-> <<>>, skipped |-> 0]
    ELSE LET rest == ClientParseMissesNonObjects(Tail(txsData))
             w    == Head(txsData)
         IN  IF w.kind = "notmap" THEN rest
             ELSE IF parseTransaction(w).err
             THEN [txs |-> rest.txs, skipped |-> rest.skipped + 1]
             ELSE [txs |-> <<parseTransaction(w).tx>> \o rest.txs, skipped |-> rest.skipped]

\* EthClient.parseBlockTransactions: [txs, skipped]
RECURSIVE ClientParseBlockTransactions(_)
ClientParseBlockTransactions(txsData) ==
    IF Len(txsData) = 0 THEN [txs |-> <<>>, skipped |-> 0]
    ELSE LET rest == ClientParseBlockTransactions(Tail(txsData))
             w    == Head(txsData)
         IN  IF w.kind = "notmap" \/ parseTransaction(w).err
             THEN [txs |-> rest.txs, skipped |-> rest.skipped + 1]
             ELSE [txs |-> <<parseTransaction(w).tx>> \o rest.txs, skipped |-> rest.skipped]

\* the block a call returns: [err, txs, skipped, path]; path tells how it was
\* built and is no field of the block
getBlockWithHeaderOnly(headerFetched) ==
    [err |-> ~headerFetched, txs |-> <<>>, skipped |-> 0, path |-> "header_only"]

getBlockWithFilteredTransactions(in) ==
    IF in.raw = "fails" THEN getBlockWithHeaderOnly(in.headerFetched)
    ELSE IF in.raw = "nil" THEN [err |-> TRUE, txs |-> <<>>, skipped |-> 0, path |-> "raw"]
    ELSE IF ~in.headerParses THEN getBlockWithHeaderOnly(in.headerFetched)
    ELSE LET r == ClientParseBlockTransactions(in.entries)
         IN  [err |-> FALSE, txs |-> r.txs, skipped |-> r.skipped, path |-> "raw"]

\* c.client.BlockByNumber: the first entry the decoder rejects gives the error
RECURSIVE StandardDecode(_)
StandardDecode(txsData) ==
    IF Len(txsData) = 0 THEN "ok"
    ELSE IF Head(txsData).kind = "blob" THEN "transaction type not supported"
    ELSE IF Head(txsData).kind \notin DecodableKinds THEN "other"
    ELSE StandardDecode(Tail(txsData))

\* the function GetBlockByNumber hands to executeWithRetry
GetBlockByNumber(in) ==
    LET std == StandardDecode(in.entries)
    IN  IF std = "ok"
        THEN [err |-> FALSE, txs |-> [i \in 1..Len(in.entries) |-> DecodedTx(in.entries[i])],
              skipped |-> 0, path |-> "standard"]
        ELSE IF std = "transaction type not supported"
        THEN getBlockWithFilteredTransactions(in)
        ELSE [err |-> TRUE, txs |-> <<>>, skipped |-> 0, path |-> "standard"]

\* Signer.Sender: the address, or SignerError
SignerError == "error"
RecoverPlain(tx) == IF tx.Signer = "none" THEN SignerError ELSE tx.Signer

\* HomesteadSigner: legacy transactions with V 27 or 28
HomesteadSender(tx) ==
    IF tx.Type # 0 \/ tx.Protected THEN SignerError ELSE RecoverPlain(tx)

\* NewEIP155Signer(chainId): legacy transactions only; an unprotected one goes
\* to the Homestead rule
EIP155Sender(chainId, tx) ==
    IF tx.Type # 0 THEN SignerError
    ELSE IF ~tx.Protected THEN HomesteadSender(tx)
    ELSE IF tx.ChainId # chainId THEN SignerError
    ELSE RecoverPlain(tx)

\* LatestSignerForChainID(chainId): every type the library decodes
LatestSender(chainId, tx) ==
    IF tx.Type = 0 THEN EIP155Sender(chainId, tx)
    ELSE IF tx.ChainId # chainId THEN SignerError
    ELSE RecoverPlain(tx)

RecoverSenderAlwaysTries(tx) ==
    IF EIP155Sender(tx.ChainId, tx) # SignerError THEN EIP155Sender(tx.ChainId, tx)
    ELSE IF LatestSender(tx.ChainId, tx) # SignerError THEN LatestSender(tx.ChainId, tx)
    ELSE IF HomesteadSender(tx) # SignerError THEN HomesteadSender(tx)
    ELSE "unknown"

\* from := "unknown"; if chainId != nil && chainId.Sign() != 0 { EIP155, else
\* latest, else Homestead }
RecoverSender(tx) ==
    IF tx.ChainId # 0
    THEN IF EIP155Sender(tx.ChainId, tx) # SignerError THEN EIP155Sender(tx.ChainId, tx)
         ELSE IF LatestSender(tx.ChainId, tx) # SignerError THEN LatestSender(tx.ChainId, tx)
         ELSE IF HomesteadSender(tx) # SignerError THEN HomesteadSender(tx)
         ELSE "unknown"
    ELSE "unknown"

\* the transaction as the parser's functions read it
ParserTx(tx) ==
    [Hash |-> tx.Hash, From |-> RecoverSender(tx), To |-> tx.To, Value |-> tx.Value]

\* DefaultConfig's parser settings
DefaultParserConfig ==
    [SkipReceiptsOnLargeBlocks |-> TRUE, MaxTransactionsForReceipts |-> 1, IncludeLogs |-> FALSE]

DecodeFrame ==
    UNCHANGED <<durableVars, mainVars, rangeVars, histVars, retryVars,
                fin, fout, cin, cout, gin, gout, bin, bout, vin, vout, win, wout, hin,
                storeVars, procVars, cancelVars, numWorkers, gateVars>>

\* worker: p.client.GetBlockByNumber(ctx, blockNumber)
DecodeGetBlock ==
    /\ hin.fn = "GetBlockByNumber"
    /\ ~hout.done
    /\ hout' = [done |-> TRUE,
                res |-> [stage |-> "client", block |-> GetBlockByNumber(hin),
                         result |-> [Error |-> FALSE, Transactions |-> <<>>],
                         BlocksParsed |-> 0, ErrorsEncountered |-> 0, allBlocks |-> <<>>,
                         lastBlockFile |-> <<>>]]
    /\ DecodeFrame

\* worker: the rest of ParseSingleBlock, into the ParseResult
DecodeParse ==
    /\ hin.fn = "GetBlockByNumber"
    /\ hout.done /\ hout.res.stage = "client"
    /\ LET b == hout.res.block
           r == ParseSingleBlock(DefaultParserConfig, b.err,
                                 [i \in 1..Len(b.txs) |-> ParserTx(b.txs[i])], FALSE, <<>>)
       IN  hout' = [hout EXCEPT !.res.stage = "parsed",
                                !.res.result = [Error |-> r.err, Transactions |-> r.Transactions]]
    /\ DecodeFrame

\* collector of ParseBlockRange: the result is counted as an error or as a
\* parsed block
DecodeCollect ==
    /\ hin.fn = "GetBlockByNumber"
    /\ hout.done /\ hout.res.stage = "parsed"
    /\ hout' = IF hout.res.result.Error
               THEN [hout EXCEPT !.res.stage = "collected",
                                 !.res.ErrorsEncountered = @ + 1]
               ELSE [hout EXCEPT !.res.stage = "collected",
                                 !.res.allBlocks = Append(@, hin.number),
                                 !.res.BlocksParsed = @ + 1]
    /\ DecodeFrame

\* coordinator: lastBlock := blocks[len(blocks)-1].Number, WriteLastBlock
DecodeWriteWatermark ==
    /\ hin.fn = "GetBlockByNumber"
    /\ hout.done /\ hout.res.stage = "collected"
    /\ hout' = IF Len(hout.res.allBlocks) = 0
               THEN [hout EXCEPT !.res.stage = "panic"]
               ELSE [hout EXCEPT !.res.stage = "written",
                                 !.res.lastBlockFile = WriteLastBlock(@, LastBlock(hout.res.allBlocks))]
    /\ DecodeFrame

(***************************************************************************)
(* The transactions table and TransactionRepository.BatchInsert            *)
(***************************************************************************)
InsertRowKeepsOld(table, row) == table \cup {row}

\* INSERT OR REPLACE of one row: tx_hash is UNIQUE, the rows in conflict are
\* deleted and the new row is inserted
InsertOrReplace(table, row) ==
    {r \in table : r.rec.TxHash # row.rec.TxHash} \cup {row}

\* the multi-row INSERT OR REPLACE of NamedExecContext: the rows in order,
\* each with a fresh id; created_at is kept when set, updated_at is now
RECURSIVE InsertAll(_, _, _, _)
InsertAll(table, batch, id, t) ==
    IF Len(batch) = 0 THEN table
    ELSE InsertAll(InsertOrReplace(table, [id |-> id, rec |-> Head(batch).rec,
                                           created_at |-> IF Head(batch).CreatedAt = 0
                                                          THEN t ELSE Head(batch).CreatedAt,
                                           updated_at |-> t]),
                   Tail(batch), id + 1, t)

\* database.Transaction values handed to BatchInsert: the whale matches of
\* blocks 7 and 8, each as filtered under either id of the whale map;
\* CreatedAt is time.Now() of the run that mapped them
StoreRecs ==
    LET base == ParseWhaleTransactions(ChainBlocks(<<7, 8>>), WhalesAddrsID, MinETHValue)
    IN  {[rec |-> [base[i] EXCEPT !.WhaleAddressID = w], CreatedAt |-> 1] :
            i \in 1..Len(base), w \in {1, 2}}

StoreBatches == UNION {[1..n -> StoreRecs] : n \in 0..MaxBatch}

\* BatchInsert(ctx, transactions): nil at once for an empty batch; otherwise
\* RunInTransaction: commit, or roll back when the statement or the commit fails
StoreBatchInsert ==
    /\ sops < MaxInserts
    /\ \E batch \in StoreBatches, fails \in BOOLEAN :
         /\ (Len(batch) = 0 => ~fails)
         /\ sbatch' = batch
         /\ sres' = IF fails THEN "failed"
                    ELSE IF sres = "ok" /\ sbatch = batch THEN "repeated" ELSE "ok"
         /\ rows' = IF fails THEN rows ELSE InsertAll(rows, batch, nextRowId, now)
         /\ nextRowId' = IF fails THEN nextRowId ELSE nextRowId + Len(batch)
    /\ sprev' = rows
    /\ sops' = sops + 1
    /\ now' = now + 1
    /\ UNCHANGED <<durableVars, mainVars, rangeVars, histVars, retryVars, pureVars, procVars, cancelVars, numWorkers, gateVars>>

(***************************************************************************)
(* main as a process: lock file, startup, exit status                      *)
(* (cmd/infura-parser/main.go)                                             *)
(***************************************************************************)
ProcIds == 1..Procs

FlockAlwaysGranted(holder) == TRUE

\* syscall.Flock(fd, LOCK_EX|LOCK_NB) succeeds when no other open file holds the lock
FlockGranted(holder) == holder = 0

\* the process ends (os.Exit, log.Fatalf, panic or return from main); the
\* kernel closes its files, which releases the lock it holds
ProcExit(p, status, cause) ==
    /\ ppc' = [ppc EXCEPT ![p] = "exited"]
    /\ pstatus' = [pstatus EXCEPT ![p] = status]
    /\ pcause' = [pcause EXCEPT ![p] = cause]
    /\ lockHolder' = IF lockHolder = p THEN 0 ELSE lockHolder

ProcGoes(p, to) ==
    /\ ppc' = [ppc EXCEPT ![p] = to]
    /\ UNCHANGED <<pstatus, pcause>>

ProcFrame == UNCHANGED <<durableVars, mainVars, rangeVars, histVars, retryVars, pureVars, storeVars,
                         cancelVars, numWorkers, gateVars>>

\* cron (or a user) starts the program
ProcStart(p) ==
    /\ ppc[p] \in {"off", "exited"}
    /\ pstarts < MaxProcStarts
    /\ pstarts' = pstarts + 1
    /\ ppc' = [ppc EXCEPT ![p] = "lock"]
    /\ pstatus' = [pstatus EXCEPT ![p] = -1]
    /\ pcause' = [pcause EXCEPT ![p] = "running"]
    /\ ptouched' = [ptouched EXCEPT ![p] = {}]
    /\ pfetched' = [pfetched EXCEPT ![p] = FALSE]
    /\ UNCHANGED lockHolder
    /\ ProcFrame

\* os.OpenFile(lockFilePath), syscall.Flock: EWOULDBLOCK prints "Another
\* instance ..." and os.Exit(1); any other error is log.Fatalf
ProcLock(p) ==
    /\ ppc[p] = "lock"
    /\ \/ ProcExit(p, 1, "lockfile")
       \/ /\ ~FlockGranted(lockHolder)
          /\ ProcExit(p, 1, "busy")
       \/ /\ FlockGranted(lockHolder)
          /\ lockHolder' = p
          /\ ProcGoes(p, "db")
    /\ UNCHANGED <<ptouched, pfetched, pstarts>>
    /\ ProcFrame

\* database.NewDatabaseManager, the table check, CreateAllTables
ProcDbInit(p) ==
    /\ ppc[p] = "db"
    /\ ptouched' = [ptouched EXCEPT ![p] = @ \cup {"store"}]
    /\ \/ ProcExit(p, 1, "persistence")
       \/ ProcGoes(p, "key") /\ UNCHANGED lockHolder
    /\ UNCHANGED <<pfetched, pstarts>>
    /\ ProcFrame

\* getInfuraAPIKey: without a key main prints the help text and returns; a
\* key shorter than 8 characters makes infuraAPIKey[:8] panic
ProcKey(p) ==
    /\ ppc[p] = "key"
    /\ \E key \in {"missing", "short", "present"} :
         CASE key = "missing" -> ProcExit(p, 0, "config_key")
           [] key = "short"   -> ProcExit(p, 2, "config_key")
           [] key = "present" -> ProcGoes(p, "client") /\ UNCHANGED lockHolder
    /\ UNCHANGED <<ptouched, pfetched, pstarts>>
    /\ ProcFrame

\* client.NewInfuraClientSimple: the network name goes into the URL, connect()
\* dials and asks for the network id; an unknown network or an unreachable or
\* refusing endpoint is log.Fatalf
ProcClient(p) ==
    /\ ppc[p] = "client"
    /\ \E network \in {"valid", "invalid"}, connects \in BOOLEAN :
         IF network = "invalid" THEN ProcExit(p, 1, "config_network")
         ELSE IF ~connects THEN ProcExit(p, 1, "rpc")
         ELSE ProcGoes(p, "flags") /\ UNCHANGED lockHolder
    /\ UNCHANGED <<ptouched, pfetched, pstarts>>
    /\ ProcFrame

\* flag.Parse: with -initw the whale addresses are rewritten and the process
\* ends in log.Fatalf, whether that worked or not
ProcFlags(p) ==
    /\ ppc[p] = "flags"
    /\ \E initw \in BOOLEAN :
         IF initw
         THEN /\ ptouched' = [ptouched EXCEPT ![p] = @ \cup {"store"}]
              /\ ProcExit(p, 1, "initw")
         ELSE /\ ProcGoes(p, "get_latest")
              /\ UNCHANGED <<lockHolder, ptouched>>
    /\ UNCHANGED <<pfetched, pstarts>>
    /\ ProcFrame

\* ethClient.GetLatestBlockNumber
ProcGetLatest(p) ==
    /\ ppc[p] = "get_latest"
    /\ pfetched' = [pfetched EXCEPT ![p] = TRUE]
    /\ \/ ProcExit(p, 1, "rpc")
       \/ ProcGoes(p, "read_wm") /\ UNCHANGED lockHolder
    /\ UNCHANGED <<ptouched, pstarts>>
    /\ ProcFrame

\* filtering.ReadLastBlock: log.Fatalf when the scan of the file fails
ProcReadWatermark(p) ==
    /\ ppc[p] = "read_wm"
    /\ ptouched' = [ptouched EXCEPT ![p] = @ \cup {"watermark"}]
    /\ \/ ProcExit(p, 1, "persistence")
       \/ ProcGoes(p, "parse") /\ UNCHANGED lockHolder
    /\ UNCHANGED <<pfetched, pstarts>>
    /\ ProcFrame

\* blockParser.ParseBlockRange, then blocks[len(blocks)-1]: a panic when no
\* block was obtained
ProcParse(p) ==
    /\ ppc[p] = "parse"
    /\ \/ ProcExit(p, 2, "rpc")
       \/ ProcGoes(p, "write_wm") /\ UNCHANGED lockHolder
    /\ UNCHANGED <<ptouched, pfetched, pstarts>>
    /\ ProcFrame

\* filtering.WriteLastBlock: log.Fatalf when the file cannot be opened or written
ProcWriteWatermark(p) ==
    /\ ppc[p] = "write_wm"
    /\ ptouched' = [ptouched EXCEPT ![p] = @ \cup {"watermark"}]
    /\ \/ ProcExit(p, 1, "persistence")
       \/ ProcGoes(p, "csv") /\ UNCHANGED lockHolder
    /\ UNCHANGED <<pfetched, pstarts>>
    /\ ProcFrame

\* filtering.AppendCSV: log.Fatalf when the file cannot be opened or written
ProcAppendCsv(p) ==
    /\ ppc[p] = "csv"
    /\ ptouched' = [ptouched EXCEPT ![p] = @ \cup {"csv"}]
    /\ \/ ProcExit(p, 1, "persistence")
       \/ ProcGoes(p, "insert") /\ UNCHANGED lockHolder
    /\ UNCHANGED <<pfetched, pstarts>>
    /\ ProcFrame

\* txRepo.BatchInsert, then the end of main
ProcInsert(p) ==
    /\ ppc[p] = "insert"
    /\ ptouched' = [ptouched EXCEPT ![p] = @ \cup {"store"}]
    /\ \/ ProcExit(p, 1, "persistence")
       \/ ProcExit(p, 0, "none")
    /\ UNCHANGED <<pfetched, pstarts>>
    /\ ProcFrame

ProcStep(p) ==
    \/ ProcStart(p)
    \/ ProcLock(p)
    \/ ProcDbInit(p)
    \/ ProcKey(p)
    \/ ProcClient(p)
    \/ ProcFlags(p)
    \/ ProcGetLatest(p)
    \/ ProcReadWatermark(p)
    \/ ProcParse(p)
    \/ ProcWriteWatermark(p)
    \/ ProcAppendCsv(p)
    \/ ProcInsert(p)

(***************************************************************************)
(* Harness for TransformTxsToCsv                                           *)
(***************************************************************************)
\* label maps: config.WhalesAddr, a map without the second address, no map
LabelMaps == {WhalesAddr, [a \in {"0xaa"} |-> "Binance 7"], [a \in {} |-> ""]}

\* database.Transaction records: the first with any addresses and direction,
\* the second between two watched addresses
CsvFirstRecs ==
    {[TxHash |-> 1, BlockNumber |-> 7, FromAddress |-> f, ToAddress |-> t,
      Value |-> <<1, Dot, 5>>, TransferType |-> d, WhaleAddressID |-> 1] :
        f \in FromAddrs, t \in ToAddrs, d \in {"FROM", "TO", "INT"}}
CsvSecondRec ==
    [TxHash |-> 2, BlockNumber |-> 8, FromAddress |-> "0xBB", ToAddress |-> "0xaa",
     Value |-> <<2>>, TransferType |-> "INT", WhaleAddressID |-> 1]

ApplyCsv ==
    /\ ~vout.done
    /\ vout' = [done |-> TRUE, res |-> TransformTxsToCsv(vin.txs, vin.whalesAddrs)]
    /\ UNCHANGED <<durableVars, mainVars, rangeVars, histVars, retryVars,
                   fin, fout, cin, hin, hout, cout, gin, gout, bin, bout, vin, win, wout, storeVars, procVars, cancelVars, numWorkers, gateVars>>

(***************************************************************************)
(* Harness for the watermark store                                         *)
(***************************************************************************)
FileBytes  == {0, 1, 9, NL, Junk, LongRun}
FileContents == UNION {[1..n -> FileBytes] : n \in 0..MaxFileLen}
WriteBlocks == {0, 8, 10, 123}

\* ReadLastBlock(path)
ApplyRead ==
    /\ wout.op = "none"
    /\ LET r == ReadLastBlockPath(win.exists, win.file)
       IN  wout' = [op |-> "read", file |-> win.file, fatal |-> r.fatal, value |-> r.value]
    /\ UNCHANGED <<durableVars, mainVars, rangeVars, histVars, retryVars,
                   fin, fout, cin, hin, hout, cout, gin, gout, bin, bout, win, vin, vout, storeVars, procVars, cancelVars, numWorkers, gateVars>>

\* WriteLastBlock(path, block); ReadLastBlock(path)
ApplyWriteRead ==
    /\ wout.op = "none"
    /\ LET f == WriteLastBlock(win.file, win.block)
           r == ReadLastBlockPath(TRUE, f)
       IN  wout' = [op |-> "write", file |-> f, fatal |-> r.fatal, value |-> r.value]
    /\ UNCHANGED <<durableVars, mainVars, rangeVars, histVars, retryVars,
                   fin, fout, cin, hin, hout, cout, gin, gout, bin, bout, win, vin, vout, storeVars, procVars, cancelVars, numWorkers, gateVars>>

(***************************************************************************)
(* Initial states and specifications                                       *)
(***************************************************************************)
MainIdle ==
    /\ lastBlockFile = <<>> /\ csvFile = <<>> /\ txStore = {} /\ head = MinHead
    /\ pc = "idle" /\ latest = 0 /\ startBlock = 0 /\ endBlock = 0
    /\ blocks = <<>> /\ tx_filtered = <<>> /\ runs = 0
    /\ blockChan = <<>> /\ blockChanClosed = FALSE /\ resultChan = <<>>
    /\ feederNext = 0 /\ feederDone = FALSE
    /\ wpc = [w \in WorkerIds |-> "done"]
    /\ wres = [w \in WorkerIds |-> [Block |-> 0, Error |-> FALSE]]
    /\ allBlocks = <<>> /\ ErrorsEncountered = 0 /\ BlocksParsed = 0
    /\ wmAtStart = 0 /\ parsedOK = {} /\ parsedFail = {} /\ statsAtReturn = 0
    /\ clamped = FALSE /\ persisted = FALSE /\ baseWm = -1 /\ handed = {}

RetryIdle ==
    /\ tickerStopped = FALSE /\ tick = FALSE
    /\ rpc = [c \in CallerIds |-> "idle"]
    /\ attempt = [c \in CallerIds |-> 0]
    /\ calls = [c \in CallerIds |-> 0]
    /\ succ = [c \in CallerIds |-> 0]
    /\ rlFails = [c \in CallerIds |-> 0]
    /\ otherFails = [c \in CallerIds |-> 0]
    /\ reconnFails = [c \in CallerIds |-> 0]
    /\ reqs = 0 /\ taken = 0
    /\ lastErr = [c \in CallerIds |-> "none"]

FilterIdle == fin = [blocks |-> <<>>, minETH |-> MinETHValue, ids |-> WhalesAddrsID] /\ fout = [done |-> FALSE, res |-> <<>>]
ClampIdle  == cin = [wm |-> 0, latest |-> 0] /\ cout = [done |-> FALSE, res |-> FetchRange(0, 0)]
BlockIdle ==
    /\ bin = [cfg |-> [SkipReceiptsOnLargeBlocks |-> TRUE, MaxTransactionsForReceipts |-> 1,
                        IncludeLogs |-> FALSE],
              blockFails |-> FALSE, txs |-> <<>>, batchFails |-> FALSE, receipts |-> <<>>]
    /\ bout = [done |-> FALSE, res |-> [err |-> FALSE, Transactions |-> <<>>, receiptCalls |-> 0]]
StoreIdle ==
    /\ rows = {} /\ nextRowId = 1 /\ now = 2 /\ sops = 0
    /\ sprev = {} /\ sbatch = <<>> /\ sres = "none"
WatermarkIdle ==
    /\ win = [exists |-> FALSE, file |-> <<>>, block |-> 0]
    /\ wout = [op |-> "none", file |-> <<>>, fatal |-> FALSE, value |-> 0]
CsvIdle == vin = [txs |-> <<>>, whalesAddrs |-> WhalesAddr] /\ vout = [done |-> FALSE, res |-> <<>>]
ClientFnIdle == hin = [fn |-> "none"] /\ hout = [done |-> FALSE, res |-> 0]

\* config.Workers of InfuraConfigSimple
ConfigIdle == numWorkers = Workers

CancelIdle ==
    /\ cancelled = FALSE /\ feederAtCancel = 0
    /\ wtakenAfter = [w \in WorkerIds |-> {}]

ProcIdle ==
    /\ ppc = [p \in ProcIds |-> "off"]
    /\ pstatus = [p \in ProcIds |-> -1]
    /\ pcause = [p \in ProcIds |-> "running"]
    /\ ptouched = [p \in ProcIds |-> {}]
    /\ pfetched = [p \in ProcIds |-> FALSE]
    /\ lockHolder = 0 /\ pstarts = 0

ConvertIdle == gin = [units |-> 0, tail |-> Zeros(13), wei |-> ZeroWei] /\ gout = [done |-> FALSE, res |-> <<>>]

Init == ClientFnIdle /\ ConfigIdle /\ CancelIdle /\ ProcIdle /\ MainIdle /\ isInfura = TRUE /\ RetryIdle /\ FilterIdle /\ ClampIdle /\ ConvertIdle /\ BlockIdle /\ StoreIdle /\ WatermarkIdle /\ CsvIdle

Next ==
    \/ StartRun
    \/ GetLatestFails
    \/ BeginParse
    \/ Feed
    \/ FeedClose
    \/ \E w \in WorkerIds : WorkerParse(w)
    \/ \E w \in WorkerIds : WorkerSend(w)
    \/ \E w \in WorkerIds : WorkerExit(w)
    \/ Collect
    \/ ParseReturn
    \/ PanicNoBlocks
    \/ WriteWatermark
    \/ FilterStep
    \/ AppendCSV
    \/ AppendCSVFails
    \/ BatchInsert
    \/ BatchInsertFails
    \/ Crash

Spec == Init /\ [][Next]_vars

\* NewEthClient with UseInfura set or not; the ticker exists in Infura mode only
InitRetry == ClientFnIdle /\ ConfigIdle /\ CancelIdle /\ ProcIdle /\ MainIdle /\ isInfura \in BOOLEAN /\ RetryIdle /\ FilterIdle /\ ClampIdle /\ ConvertIdle /\ BlockIdle /\ StoreIdle /\ WatermarkIdle /\ CsvIdle

NextRetry ==
    \/ Tick
    \/ \E c \in CallerIds : CallerStep(c)

SpecRetry == InitRetry /\ [][NextRetry]_vars

InitFilter ==
    /\ ClientFnIdle /\ ConfigIdle /\ CancelIdle /\ ProcIdle /\ MainIdle /\ isInfura = TRUE /\ RetryIdle /\ ClampIdle /\ ConvertIdle /\ BlockIdle /\ StoreIdle /\ WatermarkIdle /\ CsvIdle
    /\ \E t1 \in FirstTxs, t2 \in SecondTxs, m \in MinETHs, ids \in WatchMaps :
         \E blks \in BlockLayouts(t1, t2) : fin = [blocks |-> blks, minETH |-> m, ids |-> ids]
    /\ fout = [done |-> FALSE, res |-> <<>>]

NextFilter == ApplyFilter

SpecFilter == InitFilter /\ [][NextFilter]_vars

InitClamp ==
    /\ ClientFnIdle /\ ConfigIdle /\ CancelIdle /\ ProcIdle /\ MainIdle /\ isInfura = TRUE /\ RetryIdle /\ FilterIdle /\ ConvertIdle /\ BlockIdle /\ StoreIdle /\ WatermarkIdle /\ CsvIdle
    /\ \E w \in 0..MaxWm, l \in 0..MaxLatest : cin = [wm |-> w, latest |-> l]
    /\ cout = [done |-> FALSE, res |-> FetchRange(0, 0)]

NextClamp == ApplyClamp

SpecClamp == InitClamp /\ [][NextClamp]_vars

InitConvert ==
    /\ ClientFnIdle /\ ConfigIdle /\ CancelIdle /\ ProcIdle /\ MainIdle /\ isInfura = TRUE /\ RetryIdle /\ FilterIdle /\ ClampIdle /\ BlockIdle /\ StoreIdle /\ WatermarkIdle /\ CsvIdle
    /\ \E u \in ConvUnits, t \in ConvTails : gin = [units |-> u, tail |-> t, wei |-> WeiOf(u, t)]
    /\ gout = [done |-> FALSE, res |-> <<>>]

NextConvert == ApplyConvert

SpecConvert == InitConvert /\ [][NextConvert]_vars

InitBlock ==
    /\ ClientFnIdle /\ ConfigIdle /\ CancelIdle /\ ProcIdle /\ MainIdle /\ isInfura = TRUE /\ RetryIdle /\ FilterIdle /\ ClampIdle /\ ConvertIdle /\ StoreIdle /\ WatermarkIdle /\ CsvIdle
    /\ \E cfg \in ParserConfigs, bf \in BOOLEAN, n \in 0..MaxTxs, rf \in BOOLEAN :
         \E rs \in [1..n -> Receipts] :
            bin = [cfg |-> cfg, blockFails |-> bf, txs |-> GethTxs(n),
                   batchFails |-> rf, receipts |-> rs]
    /\ bout = [done |-> FALSE, res |-> [err |-> FALSE, Transactions |-> <<>>, receiptCalls |-> 0]]

NextBlock == ApplyParseBlock

SpecBlock == InitBlock /\ [][NextBlock]_vars

InitStore ==
    /\ ClientFnIdle /\ ConfigIdle /\ CancelIdle /\ ProcIdle /\ MainIdle /\ isInfura = TRUE /\ RetryIdle /\ FilterIdle /\ ClampIdle /\ ConvertIdle /\ BlockIdle
    /\ StoreIdle /\ WatermarkIdle /\ CsvIdle

NextStore == StoreBatchInsert

SpecStore == InitStore /\ [][NextStore]_vars

\* ParseBlockRange(ctx, 1, n) has just started its goroutines, with W workers
InitRange ==
    /\ ClientFnIdle /\ CancelIdle /\ ProcIdle /\ RetryIdle /\ isInfura = TRUE /\ FilterIdle /\ ClampIdle
    /\ ConvertIdle /\ BlockIdle /\ StoreIdle /\ WatermarkIdle /\ CsvIdle
    /\ numWorkers \in 1..Workers
    /\ lastBlockFile = <<>> /\ csvFile = <<>> /\ txStore = {} /\ head = MinHead
    /\ pc = "parsing" /\ latest = 0 /\ runs = 1
    /\ startBlock = 1 /\ endBlock \in 0..MaxRange
    /\ blocks = <<>> /\ tx_filtered = <<>>
    /\ blockChan = <<>> /\ blockChanClosed = FALSE /\ resultChan = <<>>
    /\ feederNext = 1 /\ feederDone = FALSE
    /\ wpc = StartWorkers(numWorkers)
    /\ wres = [w \in WorkerIds |-> [Block |-> 0, Error |-> FALSE]]
    /\ allBlocks = <<>> /\ ErrorsEncountered = 0 /\ BlocksParsed = 0
    /\ wmAtStart = 0 /\ parsedOK = {} /\ parsedFail = {} /\ statsAtReturn = 0
    /\ clamped = FALSE /\ persisted = FALSE /\ baseWm = -1 /\ handed = {}

NextRange ==
    \/ Feed
    \/ FeedClose
    \/ \E w \in WorkerIds : WorkerParse(w)
    \/ \E w \in WorkerIds : WorkerSend(w)
    \/ \E w \in WorkerIds : WorkerExit(w)
    \/ Collect
    \/ ParseReturn

\* every goroutine that can take a step is scheduled eventually, and each
\* ParseSingleBlock returns (WorkerParse is one step)
SpecRange ==
    /\ InitRange /\ [][NextRange]_vars
    /\ WF_vars(Feed) /\ WF_vars(FeedClose)
    /\ \A w \in WorkerIds :
          WF_vars(WorkerParse(w)) /\ WF_vars(WorkerSend(w)) /\ WF_vars(WorkerExit(w))
    /\ WF_vars(Collect) /\ WF_vars(ParseReturn)

ClientFnOff ==
    /\ ConfigIdle /\ CancelIdle /\ ProcIdle /\ MainIdle /\ isInfura = TRUE /\ RetryIdle
    /\ FilterIdle /\ ClampIdle /\ ConvertIdle /\ BlockIdle /\ StoreIdle /\ WatermarkIdle /\ CsvIdle

InitBackoff ==
    /\ ClientFnOff
    /\ \E a \in 0..MaxBackoffAttempt : hin = [fn |-> "calculateRateLimitBackoff", attempt |-> a]
    /\ hout = [done |-> FALSE, res |-> 0]

NextBackoff == ApplyBackoff

SpecBackoff == InitBackoff /\ [][NextBackoff]_vars

WireBlocks ==
    UNION {[1..n -> WireKinds] : n \in 0..MaxEntries}

InitDecode ==
    /\ ClientFnOff
    /\ \E kinds \in WireBlocks, raw \in {"ok", "nil", "fails"},
          hp \in BOOLEAN, hf \in BOOLEAN :
         hin = [fn |-> "GetBlockByNumber", number |-> MinHead,
                entries |-> [k \in 1..Len(kinds) |-> WireTx(k, kinds[k])],
                raw |-> raw, headerParses |-> hp, headerFetched |-> hf]
    /\ hout = [done |-> FALSE, res |-> 0]

NextDecode ==
    \/ DecodeGetBlock
    \/ DecodeParse
    \/ DecodeCollect
    \/ DecodeWriteWatermark

SpecDecode == InitDecode /\ [][NextDecode]_vars

InitCancel == Init

\* one call of ParseBlockRange, from its start to its return, under a
\* context that may be cancelled at any moment
NextCancel ==
    \/ StartRun
    \/ BeginParse
    \/ Feed
    \/ FeedClose
    \/ FeedCancelled
    \/ \E w \in WorkerIds : WorkerParse(w)
    \/ \E w \in WorkerIds : WorkerSend(w)
    \/ \E w \in WorkerIds : WorkerExit(w)
    \/ \E w \in WorkerIds : WorkerCancelled(w)
    \/ Collect
    \/ Cancel
    \/ ParseReturn

SpecCancel == InitCancel /\ [][NextCancel]_vars

InitProc == Init

NextProc == \E p \in ProcIds : ProcStep(p)

SpecProc == InitProc /\ [][NextProc]_vars

InitCsv ==
    /\ ClientFnIdle /\ ConfigIdle /\ CancelIdle /\ ProcIdle /\ MainIdle /\ isInfura = TRUE /\ RetryIdle /\ FilterIdle /\ ClampIdle /\ ConvertIdle /\ BlockIdle
    /\ StoreIdle /\ WatermarkIdle
    /\ \E r \in CsvFirstRecs, m \in LabelMaps : vin = [txs |-> <<r, CsvSecondRec>>, whalesAddrs |-> m]
    /\ vout = [done |-> FALSE, res |-> <<>>]

NextCsv == ApplyCsv

SpecCsv == InitCsv /\ [][NextCsv]_vars

\* a missing file has no content
InitWatermark ==
    /\ ClientFnIdle /\ ConfigIdle /\ CancelIdle /\ ProcIdle /\ MainIdle /\ isInfura = TRUE /\ RetryIdle /\ FilterIdle /\ ClampIdle /\ ConvertIdle /\ BlockIdle
    /\ StoreIdle /\ CsvIdle
    /\ \E e \in BOOLEAN, f \in FileContents, b \in WriteBlocks :
         /\ (~e => f = <<>>)
         /\ win = [exists |-> e, file |-> f, block |-> b]
    /\ wout = [op |-> "none", file |-> <<>>, fatal |-> FALSE, value |-> 0]

NextWatermark == ApplyRead \/ ApplyWriteRead

SpecWatermark == InitWatermark /\ [][NextWatermark]_vars

(***************************************************************************)
(* Properties                                                              *)
(***************************************************************************)
\* the hashes of the whale matches of block n
MatchHashes(n) ==
    LET recs == ParseWhaleTransactions(<<ChainBlock(n)>>, WhalesAddrsID, MinETHValue)
    IN  {recs[i].TxHash : i \in 1..Len(recs)}

\* C1: while a run has not persisted its matches (BatchInsert has not returned
\* nil), also when it ends in a persistence failure, the watermark file still
\* reads the value it had when the run started.
WatermarkOnlyAfterPersist ==
    (pc \in (RunningPcs \cup {"fatal_persist"}) /\ ~persisted) => Watermark = wmAtStart

\* C2: when a run is killed, every whale match of every block the run had
\* obtained is in the transaction store, or the watermark is still below that
\* block, so that the next run fetches it again.
CrashLosesNoMatch ==
    pc = "crashed" =>
        \A i \in 1..Len(blocks) :
            MatchHashes(blocks[i]) \subseteq txStore \/ Watermark < blocks[i]

\* C3: a run that ends successfully leaves a watermark that is not below the
\* watermark it started from.
WatermarkNonDecreasing ==
    pc = "done" => Watermark >= wmAtStart

\* C4: at the end of a successful run, in a sequence of runs none of which took
\* the clamp branch, every block number above the watermark the sequence
\* started from and at most the watermark now persisted was handed to the
\* whale filter by one of these runs.
NeverMissesBlock ==
    (pc = "done" /\ baseWm # -1) =>
        \A b \in (baseWm + 1)..Watermark : b \in handed

\* C5: after the watermark write of a run that obtained at least one block,
\* the watermark is the maximum block number of the blocks obtained.
WatermarkIsMaxObtained ==
    (pc \in {"filter", "csv", "db"}) => Watermark = LastBlockMax(blocks)

\* C6: when ParseBlockRange returns, the list returned holds exactly the
\* blocks whose ParseSingleBlock succeeded, each once, and ErrorsEncountered
\* is the number of blocks whose ParseSingleBlock failed.
RangeReturnsAllParsed ==
    pc = "returned" =>
        /\ SeqRange(blocks) = parsedOK
        /\ Len(blocks) = Cardinality(parsedOK)
        /\ statsAtReturn = Cardinality(parsedFail)

\* C7: when latest - watermark > maxDelta the fetched range starts at
\* latest - maxDelta, however large the gap; when latest - watermark <= maxDelta
\* and latest > watermark it starts at watermark + 1.
CatchUpClamp ==
    cout.done =>
        /\ (cin.latest - cin.wm > MaxBlockDelta => cout.res.start = cin.latest - MaxBlockDelta)
        /\ ((cin.latest - cin.wm <= MaxBlockDelta /\ cin.latest > cin.wm)
               => cout.res.start = cin.wm + 1)

CatchUpClampWitness ==
    /\ cout.done
    /\ cin.latest - cin.wm > MaxBlockDelta + 1
    /\ cout.res.clamp
    /\ cout.res.start = cin.latest - MaxBlockDelta

\* C8: executeWithRetry invokes fn at most retries+1 times; the first success
\* returns at once (no invocation follows it); rate-limit failures, other
\* failures and failed reconnects advance one and the same attempt counter;
\* and the exhausted-retries error is returned only when that counter has
\* passed retries, with no success among the invocations.
RetryBudget ==
    \A c \in CallerIds :
        /\ calls[c] <= Retries + 1
        /\ succ[c] <= 1
        /\ (succ[c] = 1) <=> (rpc[c] = "ok")
        /\ attempt[c] = rlFails[c] + otherFails[c] + reconnFails[c]
        /\ calls[c] = succ[c] + rlFails[c] + otherFails[c]
                        + (IF rpc[c] \in {"raw_gate", "hdr_gate"} THEN 1 ELSE 0)
        /\ rpc[c] = "exhausted" => (attempt[c] = Retries + 1 /\ succ[c] = 0)

RetryBudgetWitness ==
    \E c \in CallerIds :
        /\ rpc[c] = "exhausted"
        /\ calls[c] = Retries + 1
        /\ rlFails[c] > 0
        /\ otherFails[c] > 0

\* C9: every call through executeWithRetry eventually returns, with a result
\* or with the exhausted-retries error.  A call returns only by leaving the
\* gate it waits at, and a stopped ticker never ticks again (nothing restarts
\* it), so this requires that no call ever waits at the rate-limit gate
\* of a stopped ticker with no tick left.
RetryNeverStuck ==
    \A c \in CallerIds :
        ~(rpc[c] \in {"gate", "conn_gate", "raw_gate", "hdr_gate"} /\ isInfura /\ tickerStopped /\ ~tick)

\* C10 -------------------------------------------------------------------
Watched(a) == a # NoAddr /\ ToLower(a) \in DOMAIN WhalesAddrsID
Passes(t, m) == Round5(t.Value) >= m * 100000
RecordsOf(res, h) == {i \in 1..Len(res) : res[i].TxHash = h}
InputTxs == UNION {SeqRange(fin.blocks[b].Transactions) : b \in 1..Len(fin.blocks)}

\* C10: for every transaction whose rounded value passes the minimum: sender
\* watched and recipient unwatched or absent gives exactly one record, with
\* direction FROM (so never a TO record); sender unwatched and recipient
\* watched gives exactly one TO; both watched gives exactly one INT; neither
\* watched gives no record.
DirectionClassification ==
    fout.done =>
        \A t \in InputTxs :
            Passes(t, fin.minETH) =>
                LET R  == RecordsOf(fout.res, t.Hash)
                    sw == Watched(t.From)
                    rw == Watched(t.To)
                    one(d) == Cardinality(R) = 1 /\ \A i \in R : fout.res[i].TransferType = d
                IN  /\ (sw /\ ~rw) => one("FROM")
                    /\ (~sw /\ rw) => one("TO")
                    /\ (sw /\ rw) => one("INT")
                    /\ (~sw /\ ~rw) => R = {}

DirectionClassificationWitness ==
    /\ fout.done
    /\ \E t \in InputTxs :
          /\ t.Hash = 1 /\ t.To = NoAddr /\ t.From = "0xAA"
          /\ Passes(t, fin.minETH)
          /\ \E i \in 1..Len(fout.res) :
                fout.res[i].TxHash = 1 /\ fout.res[i].TransferType = "FROM"

\* v / 10^18 rounded half-up to 5 decimals, in units of 10^-5:
\* floor((v + 5 * 10^12) / 10^13), computed on the decimal digits of v (the
\* six leading digits of the 13-digit remainder decide the rounding)
HalfUpUnits(wei) ==
    LET p  == Zeros(14 - Len(wei)) \o wei
        n  == Len(p)
        q  == DigitsToNat(SubSeq(p, 1, n - 13))
        r6 == DigitsToNat(SubSeq(p, n - 12, n - 7))
    IN  IF r6 >= 500000 THEN q + 1 ELSE q

\* C11: a transaction is rejected by the value gate (it produces no record
\* although one of its addresses is watched) if and only if its value in wei,
\* divided by 10^18 and rounded half-up to 5 decimals, is strictly below
\* minETH; a transaction below the minimum produces no record whatever its
\* addresses; and 999996000000000000 wei passes minETH = 1.
ValueGate ==
    fout.done =>
        \A t \in InputTxs :
            LET R     == RecordsOf(fout.res, t.Hash)
                below == HalfUpUnits(t.Value) < fin.minETH * 100000
            IN  /\ below => R = {}
                /\ (Watched(t.From) \/ Watched(t.To)) => (R = {} <=> below)
                /\ (t.Value = NearOneETH /\ fin.minETH = 1 /\ Watched(t.From)) => R # {}

ValueGateWitness ==
    /\ fout.done
    /\ fin.minETH = 1
    /\ \E t \in InputTxs :
          /\ t.Hash = 1 /\ t.Value = NearOneETH /\ t.From = "0xaa"
          /\ \E i \in 1..Len(fout.res) :
                fout.res[i].TxHash = 1 /\ fout.res[i].Value = <<1>>
    /\ \E t \in InputTxs :
          t.Hash = 2 /\ Watched(t.To)

\* C12: gweiToETH(v) denotes round_half_up(v / 10^13) / 10^5 for every
\* non-negative v; 10^18 gives "1", 0 gives "0", 1234567890123456789 gives
\* "1.23457" and 133436509108699 gives "0.00013".
ConvertRoundsHalfUp ==
    gout.done =>
        /\ ParseFloat5(gout.res) = gin.units + (IF DigitsToNat(SubSeq(gin.tail, 1, 6)) >= 500000 THEN 1 ELSE 0)
        /\ gin.wei = <<1>> \o Zeros(18) => gout.res = <<1>>
        /\ gin.wei = <<0>> => gout.res = <<0>>
        /\ gin.wei = <<1, 2, 3, 4, 5, 6, 7, 8, 9, 0, 1, 2, 3, 4, 5, 6, 7, 8, 9>>
              => gout.res = <<1, Dot, 2, 3, 4, 5, 7>>
        /\ gin.wei = <<1, 3, 3, 4, 3, 6, 5, 0, 9, 1, 0, 8, 6, 9, 9>>
              => gout.res = <<0, Dot, 0, 0, 0, 1, 3>>

ConvertRoundsHalfUpWitness ==
    /\ gout.done
    /\ gin.wei = <<1, 2, 3, 4, 5, 6, 7, 8, 9, 0, 1, 2, 3, 4, 5, 6, 7, 8, 9>>
    /\ gout.res = <<1, Dot, 2, 3, 4, 5, 7>>

\* C13: with the skip option on, a block with more transactions than the
\* threshold is parsed without any receipt-fetch call, its normalized form holds
\* every transaction of the block in chain order, each with gas-used 0 and
\* status 2 (not fetched); a block with exactly threshold transactions takes
\* the receipt path: the receipts are fetched and their status is kept.
LargeBlockPolicy ==
    (bout.done /\ ~bin.blockFails /\ bin.cfg.SkipReceiptsOnLargeBlocks) =>
        LET n   == Len(bin.txs)
            max == bin.cfg.MaxTransactionsForReceipts
            out == bout.res
        IN  /\ n > max =>
                 /\ ~out.err
                 /\ out.receiptCalls = 0
                 /\ Len(out.Transactions) = n
                 /\ \A i \in 1..n :
                       /\ out.Transactions[i].Hash = bin.txs[i].Hash
                       /\ out.Transactions[i].GasUsed = 0
                       /\ out.Transactions[i].Status = 2
            /\ (n = max /\ bin.cfg.IncludeLogs /\ ~bin.batchFails) =>
                 /\ out.receiptCalls = 1
                 /\ \A i \in 1..n :
                       bin.receipts[i] # NilReceipt =>
                           /\ out.Transactions[i].Status = bin.receipts[i].Status
                           /\ out.Transactions[i].GasUsed = bin.receipts[i].GasUsed

LargeBlockPolicyWitness ==
    /\ bout.done /\ ~bin.blockFails /\ bin.cfg.SkipReceiptsOnLargeBlocks
    /\ bin.cfg.IncludeLogs
    /\ bin.cfg.MaxTransactionsForReceipts = 2
    /\ Len(bin.txs) = 3
    /\ bout.res.receiptCalls = 0
    /\ Len(bout.res.Transactions) = 3
    /\ bout.res.Transactions[3].Status = 2

\* the stored record per hash: the fields of the match, without the row id
\* and the timestamps the table adds
StoredContent(table) == {r.rec : r \in table}

\* C14: after any sequence of BatchInsert calls no two rows share a
\* transaction hash; a batch inserted a second time leaves the stored hashes
\* and the record stored per hash as they were after the first insert; a
\* failed batch leaves the table unchanged.
UpsertIdempotent ==
    /\ \A r1, r2 \in rows : r1.rec.TxHash = r2.rec.TxHash => r1 = r2
    /\ sres = "repeated" => StoredContent(rows) = StoredContent(sprev)
    /\ sres = "failed" => rows = sprev

UpsertIdempotentWitness ==
    /\ sres = "repeated"
    /\ Len(sbatch) = 2
    /\ sbatch[1].rec.TxHash = sbatch[2].rec.TxHash
    /\ sbatch[1].rec # sbatch[2].rec
    /\ Cardinality(rows) = 2

\* C15: for every block number n and every prior content of the watermark
\* file, ReadLastBlock right after WriteLastBlock(n) returns n.
WatermarkRoundTrip ==
    wout.op = "write" => (~wout.fatal /\ wout.value = win.block)

\* C16: ReadLastBlock never fails; it returns 0 when the file is missing,
\* empty or has no line that parses as an integer, and the value of the first
\* line of the file otherwise.
ReadNeverFails ==
    wout.op = "read" =>
        LET lines == ScanLines(win.file)
            none  == ~win.exists \/ Len(win.file) = 0 \/ \A i \in 1..Len(lines) : ~AtoiOk(lines[i])
        IN  /\ ~wout.fatal
            /\ none => wout.value = 0
            /\ ~none => (AtoiOk(lines[1]) /\ wout.value = DigitsToNat(lines[1]))

\* the lines of a CSV text, without their newline
RECURSIVE CsvTextLines(_)
CsvTextLines(text) ==
    IF Len(text) = 0 THEN <<>>
    ELSE LET k == CHOOSE i \in 1..(Len(text) + 1) :
                     /\ (i <= Len(text) => text[i].kind = "newline")
                     /\ \A j \in 1..(i - 1) : text[j].kind # "newline"
         IN  <<SubSeq(text, 1, k - 1)>> \o CsvTextLines(SubSeq(text, k + 1, Len(text)))

\* the positions where a line splits into fields: quote, comma, quote
FieldBreaks(line) ==
    {i \in 1..(Len(line) - 2) :
        line[i].kind = "quote" /\ line[i + 1].kind = "comma" /\ line[i + 2].kind = "quote"}

\* the i-th field of a line (the text between the breaks), as the pieces printed
NthBreak(line, n) ==
    IF n = 0 THEN -1
    ELSE CHOOSE i \in FieldBreaks(line) : Cardinality({j \in FieldBreaks(line) : j <= i}) = n
FieldPieces(line, n) ==
    LET from == NthBreak(line, n - 1) + 3
        to   == IF n = Cardinality(FieldBreaks(line)) + 1 THEN Len(line) - 1
                ELSE NthBreak(line, n) - 1
    IN  [i \in 1..(to - from + 1) |-> line[from + i - 1].v]

\* the lines of the output that carry the explorer URL of transaction h
LinesOfTx(text, h) ==
    LET ls == CsvTextLines(text)
    IN  {i \in 1..Len(ls) : Len(FieldPieces(ls[i], 1)) = 2 /\ FieldPieces(ls[i], 1)[2] = h}

\* C17: every line of the CSV output has exactly 7 quoted, comma-separated
\* fields in the order explorer URL, value and " ETH", direction, matched
\* address, label, timestamp, block number; the direction is FROM or TO; a
\* record with both addresses in the label map gives one FROM and one TO line
\* (never INT), a record with neither gives no line.
CsvSevenFields ==
    vout.done =>
        LET ls == CsvTextLines(vout.res)
            L  == vin.whalesAddrs
            dirs(h) == {FieldPieces(ls[i], 3)[1] : i \in LinesOfTx(vout.res, h)}
        IN  /\ \A i \in 1..Len(ls) :
                  /\ Cardinality(FieldBreaks(ls[i])) + 1 = 7
                  /\ ls[i][1].kind = "quote" /\ ls[i][Len(ls[i])].kind = "quote"
                  /\ FieldPieces(ls[i], 1)[1] = "https://etherscan.io/tx/"
                  /\ FieldPieces(ls[i], 2)[2] = " ETH"
                  /\ FieldPieces(ls[i], 3) \in {<<"FROM">>, <<"TO">>}
                  /\ ToLower(FieldPieces(ls[i], 4)[1]) \in DOMAIN L
                  /\ FieldPieces(ls[i], 5) = <<L[ToLower(FieldPieces(ls[i], 4)[1])]>>
                  /\ FieldPieces(ls[i], 6) = <<"now">>
                  /\ \E t \in 1..Len(vin.txs) :
                        /\ FieldPieces(ls[i], 1)[2] = vin.txs[t].TxHash
                        /\ FieldPieces(ls[i], 2)[1] = vin.txs[t].Value
                        /\ FieldPieces(ls[i], 7) = <<vin.txs[t].BlockNumber>>
                        /\ FieldPieces(ls[i], 4)[1] =
                              (IF FieldPieces(ls[i], 3) = <<"FROM">>
                               THEN vin.txs[t].FromAddress ELSE vin.txs[t].ToAddress)
            /\ \A t \in 1..Len(vin.txs) :
                  LET r  == vin.txs[t]
                      fw == ToLower(r.FromAddress) \in DOMAIN L
                      tw == r.ToAddress # NoAddr /\ ToLower(r.ToAddress) \in DOMAIN L
                      n  == Cardinality(LinesOfTx(vout.res, r.TxHash))
                  IN  /\ (fw /\ tw) => (n = 2 /\ dirs(r.TxHash) = {"FROM", "TO"})
                      /\ (~fw /\ ~tw) => n = 0

CsvSevenFieldsWitness ==
    /\ vout.done
    /\ vin.whalesAddrs = WhalesAddr
    /\ vin.txs[1].FromAddress = "0xAA" /\ vin.txs[1].ToAddress = "0xBB"
    /\ vin.txs[1].TransferType = "INT"
    /\ Len(CsvTextLines(vout.res)) = 4

\* the positions of main between the lock acquisition and the exit
HoldingPcs == {"db", "key", "client", "flags", "get_latest", "read_wm", "parse",
               "write_wm", "csv", "insert"}

\* C18: at most one coordinator process is between lock acquisition and
\* exit; a process that found the lock held has exited without opening the
\* watermark, the CSV or the transaction store.
SingleInstance ==
    /\ Cardinality({p \in ProcIds : ppc[p] \in HoldingPcs}) <= 1
    /\ \A p \in ProcIds : ppc[p] \in HoldingPcs => lockHolder = p
    /\ \A p \in ProcIds :
          (ppc[p] = "exited" /\ pcause[p] = "busy") => (ptouched[p] = {} /\ ~pfetched[p])

SingleInstanceWitness ==
    \E p, q \in ProcIds :
        /\ ppc[p] = "csv" /\ lockHolder = p
        /\ ppc[q] = "exited" /\ pcause[q] = "busy" /\ pstatus[q] = 1

\* what ends a run because of its configuration or credentials
ConfigCauses == {"config_key", "config_network"}

\* ends of a run that are no failure of the run: its normal end and the
\* refusal of the lock
NoFailureCauses == {"none", "busy", "lockfile"}

\* C20: a run ended by a configuration or credential error (missing API
\* key, invalid network name) has a non-zero exit status and has asked the
\* endpoint for nothing; a run with a non-zero exit status was ended by a
\* configuration or a persistence failure.
ConfigErrorsFatal ==
    \A p \in ProcIds :
        ppc[p] = "exited" =>
            /\ pcause[p] \in ConfigCauses => (pstatus[p] # 0 /\ ~pfetched[p])
            /\ (pstatus[p] # 0 /\ pcause[p] \notin NoFailureCauses)
                   => pcause[p] \in ConfigCauses \cup {"persistence"}

\* C19: once the context is cancelled no further block number is fed to
\* the work queue, no worker takes a block beyond the one it had in flight,
\* and when ParseBlockRange has returned every block parsed with success
\* before the return is in the returned list.
CancellationKeepsProgress ==
    /\ cancelled => feederNext = feederAtCancel
    /\ cancelled => \A w \in WorkerIds : wtakenAfter[w] = {}
    /\ (cancelled /\ pc = "returned") => parsedOK \subseteq SeqRange(blocks)

\* the block numbers the feeder loop "for blockNum := startBlock; blockNum <=
\* endBlock; blockNum++" goes through
WindowSize(r) == IF r.start <= r.end THEN r.end - r.start + 1 ELSE 0

\* C21: when the catch-up clamp applies, the fetch window holds at most
\* maxDelta block numbers.
ClampWindowAtMostDelta ==
    (cout.done /\ cout.res.clamp) => WindowSize(cout.res) <= MaxBlockDelta

\* the positions of main at which latest holds the head it obtained
AfterLatestPcs == {"parsing", "returned", "filter", "csv", "db"}

\* C22: a run that finds the chain head not above the watermark it started
\* from attempts no block and leaves the watermark file as it was.
NoNewBlockNoFetch ==
    (pc \in AfterLatestPcs /\ latest <= wmAtStart) =>
        /\ parsedOK \cup parsedFail = {}
        /\ Watermark = wmAtStart

\* C23: a run whose ParseBlockRange returned no block does not end in the
\* index-out-of-range panic of blocks[len(blocks)-1]: after such a return
\* the run is never in its crash state.
EmptyRunEndsNormally == pc # "panic"

\* C24: over any sequence of runs no two lines of the CSV file carry the
\* same transaction and the same direction: a matched transaction side is
\* appended at most once.
CsvLinesAtMostOnce ==
    LET ls == CsvTextLines(csvFile)
        side(i) == <<FieldPieces(ls[i], 1), FieldPieces(ls[i], 3)>>
    IN  \A i, j \in 1..Len(ls) : i # j => side(i) # side(j)

\* the block numbers the workers have received so far
Taken == parsedOK \cup parsedFail

\* C25: in ParseBlockRange without cancellation the work queue holds block
\* numbers in ascending order; the numbers fed so far are exactly those of
\* the range below the feeder's position, each either still queued or taken
\* by one worker, never both and never twice; a block has one outcome; no
\* block is twice among the results; and at the return every block number
\* of [start, end] has been attempted, whatever failed.
EachBlockOnce ==
    pc \in {"parsing", "returned"} =>
        /\ \A i \in 1..(Len(blockChan) - 1) : blockChan[i] < blockChan[i + 1]
        /\ Taken \cap SeqRange(blockChan) = {}
        /\ Taken \cup SeqRange(blockChan) = startBlock..(feederNext - 1)
        /\ parsedOK \cap parsedFail = {}
        /\ \A v, w \in WorkerIds :
              (v # w /\ wpc[v] = "send" /\ wpc[w] = "send") => wres[v].Block # wres[w].Block
        /\ Len(resultChan) = Cardinality({resultChan[i].Block : i \in 1..Len(resultChan)})
        /\ Len(allBlocks) = Cardinality(SeqRange(allBlocks))
        /\ SeqRange(allBlocks) \cap {resultChan[i].Block : i \in 1..Len(resultChan)} = {}
        /\ pc = "returned" =>
              /\ Taken = startBlock..endBlock
              /\ Len(blocks) = Cardinality(SeqRange(blocks))

EachBlockOnceWitness ==
    /\ pc = "returned"
    /\ endBlock = startBlock + MaxBlockDelta
    /\ parsedFail = {startBlock}
    /\ parsedOK = (startBlock + 1)..endBlock

\* C26: with at least one worker, whatever the size of the range and
\* whichever blocks fail, the feeder finishes, every worker finishes and
\* ParseBlockRange returns.
RangeTerminates ==
    <>(pc = "returned" /\ feederDone /\ \A w \in WorkerIds : wpc[w] = "done")

RangeTerminatesWitness ==
    /\ pc = "returned" /\ feederDone
    /\ numWorkers = 1
    /\ endBlock - startBlock + 1 > 2 * Workers
    /\ parsedFail # {} /\ parsedOK # {}

\* the workers between the receive of a block number and the send of its
\* result: the ParseSingleBlock call lies within this stretch
InFlight == {w \in WorkerIds : wpc[w] = "send"}

\* C27: during ParseBlockRange at most W single-block parses are in flight,
\* W being the configured number of workers.
ParsesInFlightAtMostW ==
    pc = "parsing" => Cardinality(InFlight) <= numWorkers

ParsesInFlightAtMostWWitness ==
    /\ pc = "parsing"
    /\ numWorkers = 1
    /\ Cardinality(InFlight) = 1
    /\ Len(blockChan) = 2

\* the positions of executeWithRetry at which a caller waits in
\* c.waitForRateLimit() before a request
GatePcs == {"gate", "conn_gate", "raw_gate", "hdr_gate"}

\* C28: a retry, backoff or reconnect of one caller blocks that caller only:
\* a caller that waits at the rate-limit gate in its first attempt (it has
\* neither failed nor reconnected) can still pass, now or at the next tick
\* of the ticker.
RetryBlocksOnlyItsCaller ==
    \A c \in CallerIds :
        (rpc[c] \in GatePcs /\ attempt[c] = 0) => (GateOpen \/ ~tickerStopped)

\* C29: the connection is re-established only before an attempt that follows
\* a non-rate-limit error; after a rate-limit error the retry uses the
\* existing connection.
ReconnectOnlyAfterOtherError ==
    \A c \in CallerIds :
        rpc[c] \in {"reconnect", "conn_gate"} => lastErr[c] # "ratelimit"

\* C30: with the gate enabled, the requests started by the callers (first
\* attempts, retries, the raw-block and header-only paths, the connection
\* check of a reconnect) never outnumber the ticks consumed.
RequestsNeverExceedTicks ==
    isInfura => reqs <= taken

RequestsNeverExceedTicksWitness ==
    /\ isInfura
    /\ reqs = 3 /\ taken = 3
    /\ \E c \in CallerIds :
          /\ rpc[c] = "ok" /\ calls[c] = 1 /\ attempt[c] = 0
          /\ \A d \in CallerIds \ {c} : rpc[d] = "idle"

\* C31: for every attempt from 0 up to the retry limit, and as far beyond it
\* as the 64-bit product is exact, the rate-limit backoff is min(2^a, 60)
\* seconds: 1 s at attempt 0, doubling, never below 1 s, never above 60 s.
BackoffDoublesToCap ==
    (hout.done /\ hin.attempt <= MaxExactAttempt) =>
        /\ hout.res.kind = "seconds"
        /\ hout.res.v = (IF hin.attempt >= 6 THEN 60 ELSE 2 ^ hin.attempt)
        /\ hout.res.v >= 1 /\ hout.res.v <= 60
        /\ hin.attempt = 0 => hout.res.v = 1
        /\ (hin.attempt > 0 /\ hin.attempt < 6) =>
              hout.res.v = 2 * calculateRateLimitBackoff(hin.attempt - 1).v

BackoffDoublesToCapWitness ==
    /\ hout.done
    /\ hin.attempt = Retries
    /\ hout.res = [kind |-> "seconds", v |-> 8]

\* C32: every successfully normalized block, under every configuration, has
\* as many normalized transactions as the raw block has transactions, and
\* position i holds raw transaction i with transaction index i.
NormalizedKeepsEveryTx ==
    (bout.done /\ ~bout.res.err) =>
        /\ Len(bout.res.Transactions) = Len(bin.txs)
        /\ \A i \in 1..Len(bout.res.Transactions) :
              /\ bout.res.Transactions[i].Hash = bin.txs[i].Hash
              /\ bout.res.Transactions[i].TransactionIndex = i - 1

\* C33: a missing or failed receipt inside the batch does not fail the
\* block, and the transaction it belongs to is reported with status
\* "failed" neither in the normalized block nor in the persisted record.
MissingReceiptNotFailed ==
    (/\ bout.done /\ ~bin.blockFails /\ ~bin.batchFails
     /\ bin.cfg.IncludeLogs /\ ~IsLargeBlock(bin.cfg, Len(bin.txs))) =>
        /\ ~bout.res.err
        /\ \A i \in 1..Len(bin.txs) :
              bin.receipts[i] = NilReceipt =>
                  /\ i <= Len(bout.res.Transactions)
                  /\ bout.res.Transactions[i].Status # StatusFailed
                  /\ DbStatus(bout.res.Transactions[i].Status) # StatusFailed

\* the positions of the wire block whose entry is decoded or coerced
KeptEntries == {k \in 1..Len(hin.entries) : hin.entries[k].kind \in DecodableKinds \cup {"blob"}}

FallbackTaken ==
    /\ hin.fn = "GetBlockByNumber" /\ hout.done
    /\ StandardDecode(hin.entries) = "transaction type not supported"

ReturnedInWireOrder(b) ==
    /\ {b.txs[i].Nonce : i \in 1..Len(b.txs)} = KeptEntries
    /\ \A i, j \in 1..Len(b.txs) : i < j => b.txs[i].Nonce < b.txs[j].Nonce
    /\ Len(b.txs) + b.skipped = Len(hin.entries)

\* C34 as stated: whenever the standard decoder rejects the block for an
\* unrecognized transaction type, GetBlockByNumber does not fail, the block
\* returned holds the transactions parsed or coerced, in wire order, and the
\* number returned plus the number skipped is the number of wire entries.
FallbackAlwaysKeepsParsed ==
    FallbackTaken =>
        /\ ~hout.res.block.err
        /\ ReturnedInWireOrder(hout.res.block)

\* C34, amended: the same, when the raw block was fetched and its header
\* parsed; otherwise the call either fails or returns, by the header-only
\* path, a block without transactions and without a skipped count.
FallbackKeepsParsed ==
    FallbackTaken =>
        IF hin.raw = "ok" /\ hin.headerParses
        THEN /\ ~hout.res.block.err
             /\ ReturnedInWireOrder(hout.res.block)
        ELSE \/ hout.res.block.err
             \/ /\ hout.res.block.path = "header_only"
                /\ hout.res.block.txs = <<>> /\ hout.res.block.skipped = 0

FallbackKeepsParsedWitness ==
    /\ FallbackTaken
    /\ hin.raw = "ok" /\ hin.headerParses
    /\ Len(hin.entries) = 3
    /\ hin.entries[1].kind = "blob" /\ hin.entries[2].kind = "notmap"
    /\ hin.entries[3].kind = "eip155"
    /\ Len(hout.res.block.txs) = 2 /\ hout.res.block.skipped = 1
    /\ hout.res.block.txs[1].Nonce = 1 /\ hout.res.block.txs[2].Nonce = 3

\* C35: a block returned through the header-only fallback is treated as not
\* fully fetched: the range fetcher does not count it as a parsed block and
\* the coordinator does not move the watermark to it.
HeaderOnlyNotCounted ==
    (/\ hin.fn = "GetBlockByNumber" /\ hout.done
     /\ hout.res.block.path = "header_only" /\ ~hout.res.block.err
     /\ Len(hin.entries) > 0) =>
        /\ hout.res.BlocksParsed = 0
        /\ hin.number \notin SeqRange(hout.res.allBlocks)
        /\ hout.res.stage = "written" =>
              ReadLastBlock(hout.res.lastBlockFile) # hin.number

\* the wire entry a returned transaction was built from
WireOf(t) == hin.entries[t.Nonce]

\* the transaction as ParseSingleBlock normalizes it and the filter reads it
NormalizedTx(t, i) ==
    LET p == parseTransactionWithoutReceipt(ParserTx(t), i - 1)
    IN  [Hash |-> p.Hash, BlockNumber |-> hin.number, From |-> p.From, To |-> p.To,
         Value |-> p.Value]

WatchedWire(w) ==
    \/ MapHas(WhalesAddrsID, ToLower(w.from))
    \/ w.to # NoAddr /\ MapHas(WhalesAddrsID, ToLower(w.to))

\* C36: the minimal record built for a transaction of an unsupported wire
\* type carries the hash, sender, recipient, value, gas, gas price and nonce
\* of the wire JSON, and the filter still matches it when its sender or its
\* recipient is a whale.
FallbackRecordKeepsFields ==
    (/\ hin.fn = "GetBlockByNumber" /\ hout.done
     /\ ~hout.res.block.err /\ hout.res.block.path = "raw") =>
        \A i \in 1..Len(hout.res.block.txs) :
            LET t == hout.res.block.txs[i]
                w == WireOf(t)
                n == NormalizedTx(t, i)
            IN  w.kind = "blob" =>
                  /\ n.Hash = w.hash /\ n.From = w.from /\ n.To = w.to
                  /\ n.Value = w.value /\ t.Gas = w.gas /\ t.GasPrice = w.gasPrice
                  /\ t.Nonce = w.nonce
                  /\ WatchedWire(w) => FilterTx(n, WhalesAddrsID, MinETHValue) # <<>>

AllSchemesFail(t) ==
    /\ EIP155Sender(t.ChainId, t) = SignerError
    /\ LatestSender(t.ChainId, t) = SignerError
    /\ HomesteadSender(t) = SignerError

FirstSuccess(t) ==
    IF EIP155Sender(t.ChainId, t) # SignerError THEN EIP155Sender(t.ChainId, t)
    ELSE IF LatestSender(t.ChainId, t) # SignerError THEN LatestSender(t.ChainId, t)
    ELSE HomesteadSender(t)

\* C37: the sender of a normalized transaction is the first success among
\* the chain-id-keyed scheme, the latest scheme and the legacy scheme, and
\* it is "unknown" only if all three fail, also for a transaction whose chain
\* id is zero or absent.
SenderUnknownOnlyIfAllFail ==
    (/\ hin.fn = "GetBlockByNumber" /\ hout.done
     /\ hout.res.stage = "parsed" /\ ~hout.res.result.Error
     /\ Len(hout.res.result.Transactions) = Len(hout.res.block.txs)) =>
        \A i \in 1..Len(hout.res.block.txs) :
            LET t    == hout.res.block.txs[i]
                from == hout.res.result.Transactions[i].From
            IN  /\ from = "unknown" <=> AllSchemesFail(t)
                /\ ~AllSchemesFail(t) => from = FirstSuccess(t)

\* the transaction hashes in the order ParseWhaleTransactions walks them
RECURSIVE Traversal(_)
Traversal(blks) ==
    IF Len(blks) = 0 THEN <<>>
    ELSE [i \in 1..Len(Head(blks).Transactions) |-> Head(blks).Transactions[i].Hash]
         \o Traversal(Tail(blks))

RECURSIVE IsSubsequence(_, _)
IsSubsequence(s, t) ==
    IF Len(s) = 0 THEN TRUE
    ELSE IF Len(t) = 0 THEN FALSE
    ELSE IF Head(s) = Head(t) THEN IsSubsequence(Tail(s), Tail(t))
    ELSE IsSubsequence(s, Tail(t))

\* C38: the hashes of the filter's records, in output order, are a
\* subsequence of the input traversal (blocks as given, transactions in
\* block order): no reordering by value, address or block number.
OutputInTraversalOrder ==
    fout.done =>
        IsSubsequence([i \in 1..Len(fout.res) |-> fout.res[i].TxHash], Traversal(fin.blocks))

OutputInTraversalOrderWitness ==
    /\ fout.done
    /\ Len(fin.blocks) = 2
    /\ Len(fout.res) = 2
    /\ fout.res[1].TxHash = 2 /\ fout.res[1].BlockNumber = 2 /\ fout.res[1].Value = <<2>>
    /\ fout.res[2].TxHash = 1 /\ fout.res[2].BlockNumber = 1 /\ fout.res[2].Value = <<5>>

\* the map's entry for the address a record was matched on: the recipient's
\* when the recipient is watched, the sender's otherwise
MatchedId(t) ==
    IF Watched(t.To) THEN MapGet(fin.ids, ToLower(t.To)) ELSE MapGet(fin.ids, ToLower(t.From))

\* C39: every record ParseWhaleTransactions returns has the hash of an input
\* transaction, a transfer type, a non-zero value and a non-zero whale id,
\* which is the id the watch map assigns to the matched address; a
\* transaction whose id cannot be mapped is not emitted with a zero or wrong
\* whale id.
RecordsWellFormed ==
    fout.done =>
        \A i \in 1..Len(fout.res) :
            \E t \in InputTxs :
                /\ fout.res[i].TxHash = t.Hash
                /\ fout.res[i].TransferType \in {"FROM", "TO", "INT"}
                /\ fout.res[i].Value # <<0>>
                /\ fout.res[i].WhaleAddressID # 0
                /\ Atoi(MatchedId(t)) > 0 => fout.res[i].WhaleAddressID = Atoi(MatchedId(t))

====
